---------------------------- MODULE Spec2Model ----------------------------
(***************************************************************************)
(* A model of servicecatalog_puppet/workflow/launch.py: the provisioning   *)
(* state machine (ProvisionProductTask.run), its dry-run twins and the     *)
(* dependency construction of the launch fan-out tasks.                    *)
(*                                                                         *)
(* Spec      : one (launch, account, region) item.  Init draws the task's  *)
(*             parameters and inputs and the live state found in the       *)
(*             account; every action is one execution of a task's run().   *)
(* SpecGraph : graph construction.  Init draws a manifest; every action is *)
(*             one call of a task's requires().                            *)
(***************************************************************************)
EXTENDS Naturals, Sequences, FiniteSets, TLC

VARIABLES
    self,                \* luigi parameters of the task under execution
    input,               \* what the task loads from its requirements
    ProvisionedProducts, \* service catalog: provisioned products of the account/region
    stack_parameters,    \* cloudformation: parameters of the product's stack
    parameter_store,     \* ssm: parameter name -> [Value, Type]
    task,                \* class of the task whose run() executed last
    calls,               \* remote calls issued by that run, in order
    locals,              \* local variables of that run
    error,               \* exception that ended that run, or NoError
    output,              \* what that run passed to write_output
    warnings,            \* what that run passed to self.warning
    result,              \* what that run passed to write_result (dry runs)
    before,              \* live state and parameter store when that run started
    after_success,       \* the run before it was a ProvisionProductTask run that wrote output
    prev_result,         \* result of the run before it, when that was a dry run on the same inputs
    manifest,            \* SpecGraph: the launches section of the manifest
    requirements,        \* SpecGraph: what the last requires() returned
    raised,              \* SpecGraph: exception raised by the last requires()
    caller,              \* SpecGraph: task whose requires() was called last
    pc,                  \* SpecDescribe: position of DoDescribeProvisioningParameters.run
    responses,           \* SpecDescribe: what describe_provisioning_parameters answers, call by call
    sleeps,              \* SpecDescribe: number of time.sleep(3) calls of the run
    prev_run,            \* SpecTerminate: task, calls and error of the run before the last one
    sched,               \* SpecSched: node -> [state, runs] of the nodes the scheduler knows
    outputs,             \* SpecSched: output key -> number of times the output was written
    builds,              \* SpecSched: account -> status of the build started in the account
    invalidator,         \* SpecSched: cache invalidator of the scheduler run
    run_no               \* SpecSched: number of the scheduler run

vars == <<self, input, ProvisionedProducts, stack_parameters, parameter_store,
          task, calls, locals, error, output, warnings, result, before,
          after_success, prev_result, manifest, requirements, raised, caller,
          pc, responses, sleeps, prev_run, sched, outputs, builds, invalidator,
          run_no>>

runVars == <<self, input, ProvisionedProducts, stack_parameters, parameter_store,
             task, calls, locals, error, output, warnings, result, before,
             after_success, prev_result>>

graphVars == <<manifest, requirements, raised, caller>>

describeVars == <<pc, responses, sleeps>>

schedVars == <<sched, outputs, builds, invalidator, run_no>>

\* the variables the runs of Spec and the requires of SpecGraph leave alone
extVars == <<describeVars, prev_run, schedVars>>

---------------------------------------------------------------------------
(* Python values *)

PyNone == "None"

PyFalse == "False"

Truthy(x) == x \notin {PyNone, PyFalse, ""}

EmptyDict == [k \in {} |-> PyNone]

\* d[k] = v
DictSet(d, k, v) == [x \in (DOMAIN d) \cup {k} |-> IF x = k THEN v ELSE d[x]]

\* d.get(k, default)
DictGet(d, k, default) == IF k \in DOMAIN d THEN d[k] ELSE default

NoError == "none"

---------------------------------------------------------------------------
(* The item and the values of the model *)

launch_name == "L1"

account_id == "111111111111"

region == "us-east-1"

puppet_account_id == "000000000000"

cache_invalidator == "c1"

product_id == "prod-1"

EXECUTION_MODE_HUB == "hub"

EXECUTION_MODE_SPOKE == "spoke"

CHANGE == "CHANGE"

NO_CHANGE == "NO_CHANGE"

\* provisioning artifact ids and the version names they carry
VersionIds == {"pa-v1", "pa-v2"}

VersionName(id) == IF id = "pa-v1" THEN "v1" ELSE "v2"

Keys == {"Foo", "Bar"}

\* self.get_parameter_values(): supplied values, by key
AllParamsChoices ==
    { f \in UNION {[D -> {"new"}] : D \in SUBSET Keys} : TRUE }

\* the ProvisioningArtifactParameters of the target version: Foo has a
\* DefaultValue, Bar (when declared) has none
ArtifactParameterChoices ==
    { <<[ParameterKey |-> "Foo", DefaultValue |-> "old"]>>,
      <<[ParameterKey |-> "Foo", DefaultValue |-> "old"],
        [ParameterKey |-> "Bar", DefaultValue |-> PyNone]>> }

\* parameters a stack of the product can carry: every map the resolution
\* below can produce
StackParameterChoices ==
    { f \in UNION {[D -> {"old", "new", PyNone}] : D \in {{"Foo"}, {"Foo", "Bar"}}} :
        /\ f["Foo"] # PyNone
        /\ ("Bar" \in DOMAIN f => f["Bar"] # "old") }

AvailableLike == {"AVAILABLE", "TAINTED"}

ProductStatuses == {"AVAILABLE", "TAINTED", "ERROR", "TERMINATED"}

HealthyStackStatuses == {"UPDATE_COMPLETE", "CREATE_COMPLETE", "UPDATE_ROLLBACK_COMPLETE"}

StackStatuses == HealthyStackStatuses \cup {"UPDATE_ROLLBACK_FAILED"}

\* Outputs of the product's stack, as describe_stacks returns them
StackOutputChoices ==
    { <<>>,
      <<[OutputKey |-> "OutA", OutputValue |-> "a-value"]>>,
      <<[OutputKey |-> "OutA", OutputValue |-> "a-value"],
        [OutputKey |-> "OutB", OutputValue |-> "b-value"]>> }

REGION_TOKEN == "${AWS::Region}"

ACCOUNT_TOKEN == "${AWS::AccountId}"

\* declared ssm output bindings; a parameter name is the sequence of the
\* pieces of its text, a token being one piece
BindingChoices ==
    { [stack_output |-> "OutA",
       param_name |-> <<"/out/", REGION_TOKEN, "/", ACCOUNT_TOKEN, "/a">>,
       param_type |-> "StringList"],
      [stack_output |-> "OutB",
       param_name |-> <<"/out/b">>] }

\* longest list of declared ssm output bindings
MaxBindings == 2

RECURSIVE SeqsUpTo(_, _)
SeqsUpTo(S, n) ==
    IF n = 0 THEN {<<>>}
    ELSE LET shorter == SeqsUpTo(S, n - 1)
         IN shorter \cup {Append(s, x) : s \in shorter, x \in S}


---------------------------------------------------------------------------
(* Remote calls.  Every call record has the same fields. *)

Call(api) ==
    [api |-> api, ProvisioningArtifactId |-> PyNone, Parameters |-> EmptyDict,
     Name |-> <<>>, Value |-> PyNone, Type |-> PyNone, Overwrite |-> FALSE]

ProvisionApis ==
    {"provision_product", "update_provisioned_product", "provision_product_with_plan"}

MutatingApis ==
    ProvisionApis \cup
    {"terminate_provisioned_product", "put_parameter_and_wait", "delete_parameter"}

ApisOf(cs) == {cs[i].api : i \in DOMAIN cs}

CallsTo(cs, apis) == SelectSeq(cs, LAMBDA c : c.api \in apis)

---------------------------------------------------------------------------
(* The collaborators of servicecatalog_puppet.aws, as the specification     *)
(* describes them (sections 4.3 and 6).                                     *)

Named(products) == {r \in products : r.Name = launch_name}

\* aws.terminate_if_status_is_not_available: scan for the product of this
\* launch; one that is not available-like is terminated first
terminate_if_status_is_not_available(products) ==
    IF Named(products) = {}
    THEN [provisioned_product_id |-> PyFalse, provisioning_artifact_id |-> PyFalse,
          provisioned_product_status |-> PyFalse, products |-> products,
          calls |-> <<Call("scan_provisioned_products_single_page")>>]
    ELSE LET r == CHOOSE r \in Named(products) : TRUE
         IN IF r.Status \in AvailableLike
            THEN [provisioned_product_id |-> r.Id,
                  provisioning_artifact_id |-> r.ProvisioningArtifactId,
                  provisioned_product_status |-> r.Status, products |-> products,
                  calls |-> <<Call("scan_provisioned_products_single_page")>>]
            ELSE [provisioned_product_id |-> PyFalse,
                  provisioning_artifact_id |-> PyFalse,
                  provisioned_product_status |-> r.Status,
                  products |-> products \ {r},
                  calls |-> <<Call("scan_provisioned_products_single_page"),
                              Call("terminate_provisioned_product")>>]

\* the cloud after a provision, an update or an executed plan: the product of
\* this launch is AVAILABLE at the requested version
ProductsAfterProvision(products, version_id) ==
    (products \ Named(products)) \cup
    {[Name |-> launch_name, Id |-> "pp-1", ProvisioningArtifactId |-> version_id,
      Status |-> "AVAILABLE"]}

\* service_catalog.describe_provisioning_artifact(...).ProvisioningArtifactDetail
ProvisioningArtifactDetail(id) == [Name |-> VersionName(id), Active |-> "True"]

---------------------------------------------------------------------------
(* ProvisionProductTask.run, piece by piece *)

\* str.replace(old, new) on a name given by its pieces
Replace(name, old, new) == [i \in DOMAIN name |-> IF name[i] = old THEN new ELSE name[i]]

\* the name with the region token replaced only
SsmParameterName_RegionOnly(param_name) == Replace(param_name, REGION_TOKEN, region)

\* the name the binding's parameter is written under
SsmParameterName(param_name) ==
    Replace(Replace(param_name, REGION_TOKEN, region), ACCOUNT_TOKEN, account_id)

\* params_to_use with every supplied key copied in as well
ParamsToUse_CopiesSupplied(provisioning_artifact_parameters, all_params) ==
    LET declared == {provisioning_artifact_parameters[i].ParameterKey :
                        i \in DOMAIN provisioning_artifact_parameters}
        DefaultValue(k) ==
            LET i == CHOOSE i \in DOMAIN provisioning_artifact_parameters :
                         provisioning_artifact_parameters[i].ParameterKey = k
            IN provisioning_artifact_parameters[i].DefaultValue
    IN [k \in declared \cup DOMAIN all_params |->
           IF k \in DOMAIN all_params THEN all_params[k] ELSE DefaultValue(k)]

\* params_to_use: one value for every parameter the artifact declares
RECURSIVE ParamsToUse(_, _)
ParamsToUse(provisioning_artifact_parameters, all_params) ==
    IF provisioning_artifact_parameters = <<>> THEN EmptyDict
    ELSE LET n == Len(provisioning_artifact_parameters)
             p == provisioning_artifact_parameters[n]
             param_name == p.ParameterKey
         IN DictSet(ParamsToUse(SubSeq(provisioning_artifact_parameters, 1, n - 1),
                                all_params),
                    param_name,
                    DictGet(all_params, param_name, p.DefaultValue))

\* need_to_provision without the TAINTED check
NeedToProvision_NoTaintedOverride(provisioning_artifact_id, provisioned_product_id, provisioned_product_status, version_id, provisioned_parameters, params_to_use) ==
    ~(/\ provisioning_artifact_id = version_id
      /\ Truthy(provisioned_product_id)
      /\ provisioned_parameters = params_to_use)

\* need_to_provision decided by the live product alone, the versions not compared
NeedToProvision_IgnoresVersion(provisioning_artifact_id, provisioned_product_id, provisioned_product_status, version_id, provisioned_parameters, params_to_use) ==
    IF provisioned_product_status = "TAINTED" THEN TRUE
    ELSE ~Truthy(provisioned_product_id)

\* need_to_provision after the version/parameter comparison and the TAINTED check
NeedToProvision(provisioning_artifact_id, provisioned_product_id, provisioned_product_status, version_id, provisioned_parameters, params_to_use) ==
    LET unchanged == /\ provisioning_artifact_id = version_id
                     /\ Truthy(provisioned_product_id)
                     /\ provisioned_parameters = params_to_use
    IN IF provisioned_product_status = "TAINTED" THEN TRUE ELSE ~unchanged

\* the check of the stack status with the raise left out
StackStatusCheck_NeverRaises(stack_status) ==
    IF stack_status = "UPDATE_ROLLBACK_COMPLETE" THEN "warn" ELSE "ok"

\* the check of the stack status before an update: "raise", "warn" or "ok"
StackStatusCheck(stack_status) ==
    IF stack_status \notin {"UPDATE_COMPLETE", "CREATE_COMPLETE", "UPDATE_ROLLBACK_COMPLETE"}
    THEN "raise"
    ELSE IF stack_status = "UPDATE_ROLLBACK_COMPLETE" THEN "warn" ELSE "ok"

\* the calls of the provisioning step, sending the supplied values instead
\* of the resolved map
ProvisionCalls_SendsSuppliedValues(provisioned_product_id, should_use_product_plans, version_id, params_to_use) ==
    IF Truthy(provisioned_product_id)
    THEN <<[Call("update_provisioned_product") EXCEPT
               !.ProvisioningArtifactId = version_id, !.Parameters = input.all_params]>>
    ELSE <<[Call("provision_product") EXCEPT
               !.ProvisioningArtifactId = version_id, !.Parameters = input.all_params]>>

\* the calls of the provisioning step with the plan-based path taken whenever it
\* is configured, for a new product as well
ProvisionCalls_PlanOnCreate(provisioned_product_id, should_use_product_plans, version_id, params_to_use) ==
    IF should_use_product_plans
    THEN <<Call("list_launch_paths"),
           [Call("provision_product_with_plan") EXCEPT
               !.ProvisioningArtifactId = version_id, !.Parameters = params_to_use]>>
    ELSE IF Truthy(provisioned_product_id)
         THEN <<[Call("update_provisioned_product") EXCEPT
                    !.ProvisioningArtifactId = version_id, !.Parameters = params_to_use]>>
         ELSE <<[Call("provision_product") EXCEPT
                    !.ProvisioningArtifactId = version_id, !.Parameters = params_to_use]>>

\* the calls of the provisioning step with the plan-based path falling through
\* to the direct update
ProvisionCalls_PlanThenUpdate(provisioned_product_id, should_use_product_plans, version_id, params_to_use) ==
    IF Truthy(provisioned_product_id)
    THEN (IF should_use_product_plans
          THEN <<Call("list_launch_paths"),
                 [Call("provision_product_with_plan") EXCEPT
                     !.ProvisioningArtifactId = version_id, !.Parameters = params_to_use]>>
          ELSE <<>>)
         \o <<[Call("update_provisioned_product") EXCEPT
                   !.ProvisioningArtifactId = version_id, !.Parameters = params_to_use]>>
    ELSE <<[Call("provision_product") EXCEPT
               !.ProvisioningArtifactId = version_id, !.Parameters = params_to_use]>>

\* the calls of the provisioning step
ProvisionCalls(provisioned_product_id, should_use_product_plans, version_id, params_to_use) ==
    IF Truthy(provisioned_product_id)
    THEN IF should_use_product_plans
         THEN <<Call("list_launch_paths"),
                [Call("provision_product_with_plan") EXCEPT
                    !.ProvisioningArtifactId = version_id, !.Parameters = params_to_use]>>
         ELSE <<[Call("update_provisioned_product") EXCEPT
                    !.ProvisioningArtifactId = version_id, !.Parameters = params_to_use]>>
    ELSE <<[Call("provision_product") EXCEPT
               !.ProvisioningArtifactId = version_id, !.Parameters = params_to_use]>>

\* the put of one binding for one stack output
SsmPut(ssm_param_output, out) ==
    [Call("put_parameter_and_wait") EXCEPT
        !.Name = SsmParameterName(ssm_param_output.param_name),
        !.Value = out.OutputValue,
        !.Type = DictGet(ssm_param_output, "param_type", "String"),
        !.Overwrite = TRUE]

CouldNotFindMatch == "Could not find match"

\* the loop over self.ssm_param_outputs as a best effort: a binding without a
\* matching output is skipped
RECURSIVE WriteSsmOutputs_BestEffort(_, _)
WriteSsmOutputs_BestEffort(ssm_param_outputs, Outputs) ==
    IF ssm_param_outputs = <<>> THEN [puts |-> <<>>, error |-> NoError]
    ELSE LET ssm_param_output == Head(ssm_param_outputs)
             matching == SelectSeq(Outputs,
                             LAMBDA o : o.OutputKey = ssm_param_output.stack_output)
             puts == [i \in 1..Len(matching) |-> SsmPut(ssm_param_output, matching[i])]
             rest == WriteSsmOutputs_BestEffort(Tail(ssm_param_outputs), Outputs)
         IN [puts |-> puts \o rest.puts, error |-> rest.error]

\* the loop over self.ssm_param_outputs going on after a binding without a
\* matching output, the exception raised at the end
RECURSIVE WriteSsmOutputs_KeepsGoing(_, _)
WriteSsmOutputs_KeepsGoing(ssm_param_outputs, Outputs) ==
    IF ssm_param_outputs = <<>> THEN [puts |-> <<>>, error |-> NoError]
    ELSE LET ssm_param_output == Head(ssm_param_outputs)
             matching == SelectSeq(Outputs,
                             LAMBDA o : o.OutputKey = ssm_param_output.stack_output)
             puts == [i \in 1..Len(matching) |-> SsmPut(ssm_param_output, matching[i])]
             rest == WriteSsmOutputs_KeepsGoing(Tail(ssm_param_outputs), Outputs)
         IN [puts |-> puts \o rest.puts,
             error |-> IF matching = <<>> THEN CouldNotFindMatch ELSE rest.error]

\* the loop over self.ssm_param_outputs: the puts issued and the exception
\* that ended the loop, if any
RECURSIVE WriteSsmOutputs(_, _)
WriteSsmOutputs(ssm_param_outputs, Outputs) ==
    IF ssm_param_outputs = <<>> THEN [puts |-> <<>>, error |-> NoError]
    ELSE LET ssm_param_output == Head(ssm_param_outputs)
             matching == SelectSeq(Outputs,
                             LAMBDA o : o.OutputKey = ssm_param_output.stack_output)
             puts == [i \in 1..Len(matching) |-> SsmPut(ssm_param_output, matching[i])]
             found_match == matching # <<>>
         IN IF ~found_match
            THEN [puts |-> puts, error |-> CouldNotFindMatch]
            ELSE LET rest == WriteSsmOutputs(Tail(ssm_param_outputs), Outputs)
                 IN [puts |-> puts \o rest.puts, error |-> rest.error]

\* the parameter store after a sequence of puts
RECURSIVE StoreAfter(_, _)
StoreAfter(store, puts) ==
    IF puts = <<>> THEN store
    ELSE StoreAfter(DictSet(store, Head(puts).Name,
                            [Value |-> Head(puts).Value, Type |-> Head(puts).Type]),
                    Tail(puts))

params_for_results_display ==
    [puppet_account_id |-> puppet_account_id, launch_name |-> launch_name,
     account_id |-> account_id, region |-> region,
     cache_invalidator |-> cache_invalidator]

NoLocals ==
    [provisioned_product_id |-> PyFalse, provisioning_artifact_id |-> PyNone,
     provisioned_product_status |-> PyFalse, params_to_use |-> EmptyDict,
     provisioned_parameters |-> EmptyDict, need_to_provision |-> TRUE,
     stack_status |-> "unread", should_use_product_plans |-> FALSE,
     Outputs |-> <<>>]

Live == [ProvisionedProducts |-> ProvisionedProducts,
         stack_parameters |-> stack_parameters,
         parameter_store |-> parameter_store]

---------------------------------------------------------------------------
(* Spec: the runs of one item *)

NoGraph ==
    /\ manifest = <<>>
    /\ requirements = [dependencies |-> {}, these_dependencies |-> <<>>]
    /\ raised = NoError
    /\ caller = [klass |-> "none", name |-> PyNone, account_id |-> PyNone,
                 region |-> PyNone]

\* no run of DoDescribeProvisioningParameters
NoDescribe ==
    /\ pc = "none"
    /\ responses = <<>>
    /\ sleeps = 0

NoPrevRun == [task |-> "none", calls |-> <<>>, error |-> NoError]

\* no scheduler run
NoSched ==
    /\ sched = <<>>
    /\ outputs = <<>>
    /\ builds = <<>>
    /\ invalidator = "c1"
    /\ run_no = 0

NoExt ==
    /\ NoDescribe
    /\ prev_run = NoPrevRun
    /\ NoSched

Init ==
    /\ \E version_id \in VersionIds, all_params \in AllParamsChoices,
          provisioning_artifact_parameters \in ArtifactParameterChoices :
          input = [version_id |-> version_id, all_params |-> all_params,
                   provisioning_artifact_parameters |-> provisioning_artifact_parameters]
    /\ \E execution \in {EXECUTION_MODE_HUB, EXECUTION_MODE_SPOKE},
          ssm_param_outputs \in SeqsUpTo(BindingChoices, MaxBindings) :
          self = [version |-> VersionName(input.version_id), execution |-> execution,
                  ssm_param_outputs |-> ssm_param_outputs]
    /\ \/ /\ ProvisionedProducts = {}
          /\ stack_parameters = EmptyDict
       \/ \E paid \in VersionIds, status \in ProductStatuses :
             /\ ProvisionedProducts =
                    {[Name |-> launch_name, Id |-> "pp-1",
                      ProvisioningArtifactId |-> paid, Status |-> status]}
             /\ IF status \in AvailableLike
                THEN stack_parameters \in StackParameterChoices
                ELSE stack_parameters = EmptyDict
    /\ parameter_store = EmptyDict
    /\ task = "none"
    /\ calls = <<>>
    /\ locals = NoLocals
    /\ error = NoError
    /\ output = <<>>
    /\ warnings = <<>>
    /\ result = <<>>
    /\ before = Live
    /\ after_success = FALSE
    /\ prev_result = <<>>
    /\ NoGraph
    /\ NoExt

StackStatusError == "current cfn stack_status is"

\* the SSM outputs written in every execution mode
WritesSsmOutputs_InEveryMode(execution) == TRUE

\* if self.execution == constants.EXECUTION_MODE_HUB: the SSM outputs are
\* written
WritesSsmOutputs(execution) == execution = EXECUTION_MODE_HUB

\* self.write_output(task_output) placed before the SSM outputs are written
ProvisionProductTask_write_output_BeforeSsmWrites(err) ==
    IF err # StackStatusError THEN <<params_for_results_display>> ELSE <<>>

\* self.write_output(task_output), the last statement of the run: reached
\* when nothing raised before it
ProvisionProductTask_write_output(err) ==
    IF err = NoError THEN <<params_for_results_display>> ELSE <<>>

\* One execution of ProvisionProductTask.run.  The stack status, the plan
\* configuration and the stack outputs are drawn where the run reads them;
\* a singleton \E names a local variable of the run.
ProvisionProductTask_run ==
    \E pre \in {terminate_if_status_is_not_available(ProvisionedProducts)},
       params_to_use \in {ParamsToUse(input.provisioning_artifact_parameters,
                                      input.all_params)} :
    \E compares \in {/\ pre.provisioning_artifact_id = input.version_id
                     /\ Truthy(pre.provisioned_product_id)} :
    \E provisioned_parameters \in {IF compares THEN stack_parameters ELSE EmptyDict} :
    \E need_to_provision \in
          {NeedToProvision(pre.provisioning_artifact_id, pre.provisioned_product_id,
                           pre.provisioned_product_status, input.version_id,
                           provisioned_parameters, params_to_use)} :
    \E reads_status \in {need_to_provision /\ Truthy(pre.provisioned_product_id)} :
    \E stack_status \in (IF reads_status THEN StackStatuses ELSE {"unread"}) :
    \E check \in {IF reads_status THEN StackStatusCheck(stack_status) ELSE "ok"} :
    \E should_use_product_plans \in
          (IF need_to_provision /\ check # "raise" THEN BOOLEAN ELSE {FALSE}) :
    \E provision \in {IF need_to_provision /\ check # "raise"
                      THEN ProvisionCalls(pre.provisioned_product_id,
                                          should_use_product_plans,
                                          input.version_id, params_to_use)
                      ELSE <<>>} :
    \E hub \in {check # "raise" /\ WritesSsmOutputs(self.execution)} :
    \E Outputs \in (IF hub THEN StackOutputChoices ELSE {<<>>}) :
    \E ssm \in {IF hub THEN WriteSsmOutputs(self.ssm_param_outputs, Outputs)
                ELSE [puts |-> <<>>, error |-> NoError]} :
    \E err \in {IF check = "raise" THEN StackStatusError ELSE ssm.error} :
        /\ task' = "ProvisionProductTask"
        /\ before' = Live
        /\ after_success' = (task = "ProvisionProductTask" /\ output # <<>>)
        /\ prev_result' = IF task = "ProvisionProductDryRunTask" THEN result ELSE <<>>
        /\ calls' = pre.calls
                 \o (IF compares THEN <<Call("get_parameters_for_stack")>> ELSE <<>>)
                 \o (IF reads_status THEN <<Call("get_stack_output_for")>> ELSE <<>>)
                 \o provision
                 \o (IF hub THEN <<Call("get_stack_output_for")>> ELSE <<>>)
                 \o ssm.puts
        /\ locals' = [provisioned_product_id |-> pre.provisioned_product_id,
                      provisioning_artifact_id |-> pre.provisioning_artifact_id,
                      provisioned_product_status |-> pre.provisioned_product_status,
                      params_to_use |-> params_to_use,
                      provisioned_parameters |-> provisioned_parameters,
                      need_to_provision |-> need_to_provision,
                      stack_status |-> stack_status,
                      should_use_product_plans |-> should_use_product_plans,
                      Outputs |-> Outputs]
        /\ ProvisionedProducts' =
              IF provision # <<>>
              THEN ProductsAfterProvision(pre.products, input.version_id)
              ELSE pre.products
        /\ stack_parameters' = IF provision # <<>> THEN params_to_use ELSE stack_parameters
        /\ parameter_store' = StoreAfter(parameter_store, ssm.puts)
        /\ warnings' = IF check = "warn" THEN <<"This may need manual resolution.">>
                       ELSE <<>>
        /\ error' = err
        /\ output' = ProvisionProductTask_write_output(err)
        /\ result' = <<>>
        /\ UNCHANGED <<self, input, graphVars, extVars>>

\* ProvisionProductDryRunTask.write_result
DiffResult(current_version, new_version, effect, current_status, active, notes) ==
    [current_version |-> current_version, new_version |-> new_version,
     effect |-> effect, current_status |-> current_status, active |-> active,
     notes |-> notes]

\* the classification with a product that is not there yet classified as no
\* change
DryRunResults_NewProvisionIsNoChange(provisioned_product_id, provisioning_artifact_id, current_status, version_id, version, provisioned_parameters, params_to_use) ==
    IF provisioning_artifact_id = PyNone
    THEN <<DiffResult("-", version, NO_CHANGE, "NOT_PROVISIONED", "N/A", "New provisioning")>>
    ELSE LET current_version_details == ProvisioningArtifactDetail(provisioning_artifact_id)
         IN IF provisioning_artifact_id = version_id
            THEN IF Truthy(provisioned_product_id)
                 THEN IF provisioned_parameters = params_to_use
                      THEN <<DiffResult(version, version, NO_CHANGE, current_status,
                                        current_version_details.Active,
                                        "Versions and params are the same")>>
                      ELSE <<DiffResult(version, version, CHANGE, current_status,
                                        current_version_details.Active,
                                        "Versions are the same but the params are different")>>
                 ELSE <<>>
            ELSE <<DiffResult(IF Truthy(provisioning_artifact_id)
                              THEN current_version_details.Name ELSE "",
                              version, CHANGE, current_status,
                              IF Truthy(provisioning_artifact_id)
                              THEN current_version_details.Active ELSE "False",
                              "Version change")>>

\* the classification with one note for both causes of a change
DryRunResults_OneNote(provisioned_product_id, provisioning_artifact_id, current_status, version_id, version, provisioned_parameters, params_to_use) ==
    IF provisioning_artifact_id = PyNone
    THEN <<DiffResult("-", version, CHANGE, "NOT_PROVISIONED", "N/A", "New provisioning")>>
    ELSE LET current_version_details == ProvisioningArtifactDetail(provisioning_artifact_id)
         IN IF provisioning_artifact_id = version_id
            THEN IF Truthy(provisioned_product_id)
                 THEN IF provisioned_parameters = params_to_use
                      THEN <<DiffResult(version, version, NO_CHANGE, current_status,
                                        current_version_details.Active,
                                        "Versions and params are the same")>>
                      ELSE <<DiffResult(version, version, CHANGE, current_status,
                                        current_version_details.Active,
                                        "Version change")>>
                 ELSE <<>>
            ELSE <<DiffResult(IF Truthy(provisioning_artifact_id)
                              THEN current_version_details.Name ELSE "",
                              version, CHANGE, current_status,
                              IF Truthy(provisioning_artifact_id)
                              THEN current_version_details.Active ELSE "False",
                              "Version change")>>

\* the classification of ProvisionProductDryRunTask.run: the results written
DryRunResults(provisioned_product_id, provisioning_artifact_id, current_status, version_id, version, provisioned_parameters, params_to_use) ==
    IF provisioning_artifact_id = PyNone
    THEN <<DiffResult("-", version, CHANGE, "NOT_PROVISIONED", "N/A", "New provisioning")>>
    ELSE LET current_version_details == ProvisioningArtifactDetail(provisioning_artifact_id)
         IN IF provisioning_artifact_id = version_id
            THEN IF Truthy(provisioned_product_id)
                 THEN IF provisioned_parameters = params_to_use
                      THEN <<DiffResult(version, version, NO_CHANGE, current_status,
                                        current_version_details.Active,
                                        "Versions and params are the same")>>
                      ELSE <<DiffResult(version, version, CHANGE, current_status,
                                        current_version_details.Active,
                                        "Versions are the same but the params are different")>>
                 ELSE <<>>
            ELSE <<DiffResult(IF Truthy(provisioning_artifact_id)
                              THEN current_version_details.Name ELSE "",
                              version, CHANGE, current_status,
                              IF Truthy(provisioning_artifact_id)
                              THEN current_version_details.Active ELSE "False",
                              "Version change")>>

\* the remote calls of a dry run that terminates a product it finds
DryRunCalls_Terminates(provisioned_product_id, provisioning_artifact_id, version_id) ==
    <<Call("scan_provisioned_products_single_page")>>
    \o (IF provisioning_artifact_id # PyNone
        THEN <<Call("terminate_provisioned_product")>> ELSE <<>>)

\* the remote calls of ProvisionProductDryRunTask.run
DryRunCalls(provisioned_product_id, provisioning_artifact_id, version_id) ==
    <<Call("scan_provisioned_products_single_page")>>
    \o (IF provisioning_artifact_id # PyNone
        THEN <<Call("describe_provisioning_artifact")>> ELSE <<>>)
    \o (IF /\ provisioning_artifact_id # PyNone
           /\ provisioning_artifact_id = version_id
           /\ Truthy(provisioned_product_id)
        THEN <<Call("get_parameters_for_stack")>> ELSE <<>>)

ProvisionProductDryRunTask_run ==
    LET version_id == input.version_id
        named == Named(ProvisionedProducts)
        r == CHOOSE r \in named : TRUE
        current_status == IF named = {} THEN "NOT_PROVISIONED" ELSE r.Status
        found == named # {} /\ current_status \in {"AVAILABLE", "TAINTED"}
        provisioned_product_id == IF found THEN r.Id ELSE PyFalse
        provisioning_artifact_id == IF found THEN r.ProvisioningArtifactId ELSE PyNone
        params_to_use == ParamsToUse(input.provisioning_artifact_parameters,
                                     input.all_params)
        compares == /\ provisioning_artifact_id = version_id
                    /\ Truthy(provisioned_product_id)
        provisioned_parameters == IF compares THEN stack_parameters ELSE EmptyDict
    IN /\ task' = "ProvisionProductDryRunTask"
       /\ before' = Live
       /\ after_success' = FALSE
       /\ prev_result' = IF task = "ProvisionProductDryRunTask" THEN result ELSE <<>>
       /\ calls' = DryRunCalls(provisioned_product_id, provisioning_artifact_id, version_id)
       /\ locals' = [NoLocals EXCEPT
                        !.provisioned_product_id = provisioned_product_id,
                        !.provisioning_artifact_id = provisioning_artifact_id,
                        !.provisioned_product_status = current_status,
                        !.params_to_use =
                            IF provisioning_artifact_id = PyNone THEN EmptyDict
                            ELSE params_to_use,
                        !.provisioned_parameters = provisioned_parameters]
       /\ result' = DryRunResults(provisioned_product_id, provisioning_artifact_id,
                                  current_status, version_id, self.version,
                                  provisioned_parameters, params_to_use)
       /\ error' = NoError
       /\ output' = <<>>
       /\ warnings' = <<>>
       /\ UNCHANGED <<self, input, ProvisionedProducts, stack_parameters,
                      parameter_store, graphVars, extVars>>

\* TerminateProductDryRunTask.write_result
TerminateDiffResult(current_version, new_version, effect, notes) ==
    [current_version |-> current_version, new_version |-> new_version,
     effect |-> effect, notes |-> notes]

\* the classification of TerminateProductDryRunTask.run; r is the set holding
\* the product aws.get_provisioned_product_details found, empty for None
TerminateDryRunResults(r) ==
    IF r = {}
    THEN <<TerminateDiffResult("-", "-", NO_CHANGE, "There is nothing to terminate")>>
    ELSE LET p == CHOOSE p \in r : TRUE
             provisioned_product_name ==
                 ProvisioningArtifactDetail(p.ProvisioningArtifactId).Name
         IN IF p.Status # "TERMINATED"
            THEN <<TerminateDiffResult(provisioned_product_name, "-", CHANGE,
                                       "The product would be terminated")>>
            ELSE <<TerminateDiffResult("-", "-", CHANGE,
                                       "The product is already terminated")>>

\* the remote calls of TerminateProductDryRunTask.run
TerminateDryRunCalls(r) ==
    <<Call("get_provisioned_product_details")>>
    \o (IF r # {} THEN <<Call("describe_provisioning_artifact")>> ELSE <<>>)

TerminateProductDryRunTask_run ==
    LET r == Named(ProvisionedProducts)
    IN /\ task' = "TerminateProductDryRunTask"
       /\ before' = Live
       /\ after_success' = FALSE
       /\ prev_result' = IF task = "TerminateProductDryRunTask" THEN result ELSE <<>>
       /\ calls' = TerminateDryRunCalls(r)
       /\ locals' = NoLocals
       /\ result' = TerminateDryRunResults(r)
       /\ error' = NoError
       /\ output' = <<>>
       /\ warnings' = <<>>
       /\ UNCHANGED <<self, input, ProvisionedProducts, stack_parameters,
                      parameter_store, graphVars, extVars>>

Next ==
    \/ ProvisionProductTask_run
    \/ ProvisionProductDryRunTask_run
    \/ TerminateProductDryRunTask_run

Spec == Init /\ [][Next]_vars

---------------------------------------------------------------------------
(* SpecGraph: the construction of the dependency graph (requires) *)

LAUNCHES == "launches"

LAUNCH == "launch"

SPOKE_LOCAL_PORTFOLIO == "spoke-local-portfolio"

ASSERTION == "assertion"

CODE_BUILD_RUN == "code-build-run"

LAMBDA_INVOCATION == "lambda-invocation"

PROVISIONED == "provisioned"

TERMINATED == "terminated"

SupportedTypes ==
    {LAUNCH, SPOKE_LOCAL_PORTFOLIO, ASSERTION, CODE_BUILD_RUN, LAMBDA_INVOCATION}

LaunchNames == {"L1", "L2"}

Regions == {"us-east-1", "eu-west-1"}

Accounts == {"111111111111", "222222222222"}

\* depends_on edges a launch can declare: every supported type, the section
\* name and an unsupported type, each with its own type, "region" or "account"
\* as affinity
EdgeChoices ==
    UNION { { [type |-> t, affinity |-> a, name |-> "L2"] : a \in {t, "region"} } :
              t \in SupportedTypes \cup {LAUNCHES, "other"} }
    \cup {[type |-> LAUNCH, affinity |-> "account", name |-> "L2"]}

\* longest depends_on list of a launch
MaxEdges == 2

\* a node of the task graph
Node(klass, name, account, reg) ==
    [klass |-> klass, name |-> name, account_id |-> account, region |-> reg]

\* manifest.get_tasks_for_launch_and_region: the (account, region) pairs the
\* manifest binds to the launch, restricted to the region
get_tasks_for_launch_and_region(m, name, reg) ==
    {pair \in m[name].deploy_to : pair[2] = reg}

AffinityError == "Could can only depend on ... when using spoke execution mode"

UnknownStatus == "Unknown status"

\* ProvisioningTask.status with no default for a launch without a status
ProvisioningTask_status_NoDefault(m, name) == DictGet(m[name], "status", PyNone)

\* ProvisioningTask.status: the status of the launch in the manifest,
\* provisioned when the launch declares none
ProvisioningTask_status(m, name) == DictGet(m[name], "status", PROVISIONED)

\* LaunchForTask.get_klass_for_provisioning; UnknownStatus when it raises
get_klass_for_provisioning(status, is_dry_run) ==
    IF is_dry_run
    THEN IF status = PROVISIONED THEN "ProvisionProductDryRunTask"
         ELSE IF status = TERMINATED THEN "TerminateProductDryRunTask"
         ELSE UnknownStatus
    ELSE IF status = PROVISIONED THEN "ProvisionProductTask"
         ELSE IF status = TERMINATED THEN "TerminateProductTask"
         ELSE UnknownStatus

\* one iteration of the loop with the affinity of a launch edge not checked
SpokeEdge_Lenient(m, depends_on) ==
    IF depends_on.type = LAUNCH
    THEN [append |-> <<Node("LaunchTask", depends_on.name, PyNone, PyNone)>>,
          raised |-> NoError]
    ELSE IF depends_on.type \in SupportedTypes /\ depends_on.affinity # depends_on.type
    THEN [append |-> <<>>, raised |-> AffinityError]
    ELSE [append |-> <<>>, raised |-> NoError]

\* one iteration of the loop of LaunchForSpokeExecutionTask.requires: the
\* dependencies the edge appends, and the exception it raises
SpokeEdge(m, depends_on) ==
    LET depends_on_affinity == depends_on.affinity
        depends_on_type == depends_on.type
        raise == [append |-> <<>>, raised |-> AffinityError]
        ok(node) == [append |-> <<node>>, raised |-> NoError]
    IN IF depends_on_type = LAUNCH
       THEN IF depends_on_affinity = LAUNCH
            THEN IF m[depends_on.name].execution = EXECUTION_MODE_SPOKE
                 THEN ok(Node("LaunchForSpokeExecutionTask", depends_on.name, PyNone, PyNone))
                 ELSE ok(Node("LaunchTask", depends_on.name, PyNone, PyNone))
            ELSE raise
       ELSE IF depends_on_type = SPOKE_LOCAL_PORTFOLIO
       THEN IF depends_on_affinity = SPOKE_LOCAL_PORTFOLIO
            THEN ok(Node("SpokeLocalPortfolioTask", depends_on.name, PyNone, PyNone))
            ELSE raise
       ELSE IF depends_on_type = ASSERTION
       THEN IF depends_on_affinity = ASSERTION
            THEN ok(Node("AssertionTask", depends_on.name, PyNone, PyNone))
            ELSE raise
       ELSE IF depends_on_type = CODE_BUILD_RUN
       THEN IF depends_on_affinity = CODE_BUILD_RUN
            THEN ok(Node("CodeBuildRunTask", depends_on.name, PyNone, PyNone))
            ELSE raise
       ELSE IF depends_on_type = LAMBDA_INVOCATION
       THEN IF depends_on_affinity = LAMBDA_INVOCATION
            THEN ok(Node("LambdaInvocationTask", depends_on.name, PyNone, PyNone))
            ELSE raise
       ELSE [append |-> <<>>, raised |-> NoError]

\* the loop of LaunchForSpokeExecutionTask.requires over the edges
RECURSIVE SpokeDependencies(_, _)
SpokeDependencies(m, dependencies) ==
    IF dependencies = <<>> THEN [these_dependencies |-> <<>>, raised |-> NoError]
    ELSE LET first == SpokeEdge(m, Head(dependencies))
         IN IF first.raised # NoError
            THEN [these_dependencies |-> <<>>, raised |-> first.raised]
            ELSE LET rest == SpokeDependencies(m, Tail(dependencies))
                 IN [these_dependencies |->
                        IF rest.raised # NoError THEN <<>>
                        ELSE first.append \o rest.these_dependencies,
                     raised |-> rest.raised]

\* the loop of LaunchForRegionTask.requires over the edges
RECURSIVE RegionDependencies(_, _)
RegionDependencies(depends_on_list, reg) ==
    IF depends_on_list = <<>> THEN <<>>
    ELSE LET depends_on == Head(depends_on_list)
         IN (IF depends_on.type = LAUNCHES /\ depends_on.affinity = "region"
             THEN <<Node("LaunchForRegionTask", depends_on.name, PyNone, reg)>>
             ELSE <<>>)
            \o RegionDependencies(Tail(depends_on_list), reg)

NoRun ==
    /\ self = [version |-> PyNone, execution |-> PyNone, ssm_param_outputs |-> <<>>]
    /\ input = [version_id |-> PyNone, all_params |-> EmptyDict,
                provisioning_artifact_parameters |-> <<>>]
    /\ ProvisionedProducts = {}
    /\ stack_parameters = EmptyDict
    /\ parameter_store = EmptyDict
    /\ task = "none"
    /\ calls = <<>>
    /\ locals = NoLocals
    /\ error = NoError
    /\ output = <<>>
    /\ warnings = <<>>
    /\ result = <<>>
    /\ before = Live
    /\ after_success = FALSE
    /\ prev_result = <<>>

NoRequirements == [dependencies |-> {}, these_dependencies |-> <<>>]

InitGraph ==
    /\ \E depends_on \in SeqsUpTo(EdgeChoices, MaxEdges),
          execution1 \in {EXECUTION_MODE_HUB, EXECUTION_MODE_SPOKE},
          execution2 \in {EXECUTION_MODE_HUB, EXECUTION_MODE_SPOKE},
          status \in {PROVISIONED, TERMINATED, "deleted"} :
          manifest =
              [name \in LaunchNames |->
                  IF name = "L1"
                  THEN [execution |-> execution1, status |-> status,
                        depends_on |-> depends_on,
                        deploy_to |-> {<<"111111111111", "us-east-1">>,
                                       <<"111111111111", "eu-west-1">>,
                                       <<"222222222222", "us-east-1">>}]
                  ELSE [execution |-> execution2, status |-> PROVISIONED,
                        depends_on |-> <<>>,
                        deploy_to |-> {<<"111111111111", "us-east-1">>}]]
    /\ requirements = NoRequirements
    /\ raised = NoError
    /\ caller = Node("none", PyNone, PyNone, PyNone)
    /\ NoRun
    /\ NoExt

LaunchForSpokeExecutionTask_requires(launch) ==
    LET got == SpokeDependencies(manifest, manifest[launch].depends_on)
    IN /\ caller' = Node("LaunchForSpokeExecutionTask", launch, PyNone, PyNone)
       /\ raised' = got.raised
       /\ requirements' = [dependencies |-> {},
                           these_dependencies |-> got.these_dependencies]
       /\ UNCHANGED <<manifest, runVars, extVars>>

LaunchForRegionTask_requires(launch, reg, is_dry_run) ==
    LET klass == get_klass_for_provisioning(manifest[launch].status, is_dry_run)
    IN /\ caller' = Node("LaunchForRegionTask", launch, PyNone, reg)
       /\ raised' = IF klass = UnknownStatus THEN UnknownStatus ELSE NoError
       /\ requirements' =
             IF klass = UnknownStatus THEN NoRequirements
             ELSE [dependencies |->
                      {Node(klass, launch, pair[1], pair[2]) :
                          pair \in get_tasks_for_launch_and_region(manifest, launch, reg)},
                   these_dependencies |->
                      RegionDependencies(manifest[launch].depends_on, reg)]
       /\ UNCHANGED <<manifest, runVars, extVars>>

NextGraph ==
    \/ \E launch \in LaunchNames : LaunchForSpokeExecutionTask_requires(launch)
    \/ \E launch \in LaunchNames, reg \in Regions, is_dry_run \in BOOLEAN :
          LaunchForRegionTask_requires(launch, reg, is_dry_run)

SpecGraph == InitGraph /\ [][NextGraph]_vars

---------------------------------------------------------------------------
(* SpecDescribe: DoDescribeProvisioningParameters.run, step by step.  Init  *)
(* draws what the remote answers to each call; the run is about to enter    *)
(* its loop.                                                                *)

\* the text the handler looks for in str(ex)
S3_ACCESS_DENIED == "S3 error: Access Denied"

\* a python value that is a list, and None
PyList(v) == [type |-> "list", value |-> v]

NoneValue == [type |-> "NoneType", value |-> <<>>]

\* what one call of describe_provisioning_parameters can do: return a
\* response, raise a ClientError, or raise another exception; the text of an
\* exception is the sequence of its pieces
ResponseChoices ==
    { [kind |-> "ok", message |-> <<>>,
       ProvisioningArtifactParameters |->
           <<[ParameterKey |-> "Foo", DefaultValue |-> "old"]>>],
      [kind |-> "ClientError",
       message |-> <<"An error occurred (ValidationException): ", S3_ACCESS_DENIED>>,
       ProvisioningArtifactParameters |-> <<>>],
      [kind |-> "ClientError",
       message |-> <<"An error occurred (ThrottlingException): ", "Rate exceeded">>,
       ProvisioningArtifactParameters |-> <<>>],
      [kind |-> "Exception",
       message |-> <<"Could not connect to the endpoint URL">>,
       ProvisioningArtifactParameters |-> <<>>] }

\* number of answers the remote has ready
MaxResponses == 4

RECURSIVE SeqsOfLen(_, _)
SeqsOfLen(S, n) ==
    IF n = 0 THEN {<<>>}
    ELSE {Append(q, x) : q \in SeqsOfLen(S, n - 1), x \in S}

\* "S3 error: Access Denied" in str(ex)
IsAccessDenied_AnyClientError(ex) == ex.kind = "ClientError"

IsAccessDenied(ex) == \E i \in DOMAIN ex.message : ex.message[i] = S3_ACCESS_DENIED

\* retries = 3
Retries == 3

InitDescribe ==
    /\ responses \in SeqsOfLen(ResponseChoices, MaxResponses)
    /\ pc = "while"
    /\ sleeps = 0
    /\ locals = [provisioning_artifact_parameters |-> NoneValue, retries |-> Retries]
    /\ task = "DoDescribeProvisioningParameters"
    /\ calls = <<>>
    /\ error = NoError
    /\ output = <<>>
    /\ warnings = <<>>
    /\ result = <<>>
    /\ self = [version |-> PyNone, execution |-> PyNone, ssm_param_outputs |-> <<>>]
    /\ input = [version_id |-> PyNone, all_params |-> EmptyDict,
                provisioning_artifact_parameters |-> <<>>]
    /\ ProvisionedProducts = {}
    /\ stack_parameters = EmptyDict
    /\ parameter_store = EmptyDict
    /\ before = Live
    /\ after_success = FALSE
    /\ prev_result = <<>>
    /\ NoGraph
    /\ prev_run = NoPrevRun
    /\ NoSched

describeFrame ==
    <<self, input, ProvisionedProducts, stack_parameters, parameter_store, task,
      warnings, result, before, after_success, prev_result, graphVars, responses,
      prev_run, schedVars>>

\* one pass of the try block: the call, and what the except clause does
\* with what it raised
DoDescribe_try ==
    /\ pc = "while"
    /\ locals.retries > 0
    /\ Len(calls) < Len(responses)
    /\ LET ex == responses[Len(calls) + 1]
       IN /\ calls' = Append(calls, Call("describe_provisioning_parameters"))
          /\ IF ex.kind = "ok"
             THEN /\ locals' = [provisioning_artifact_parameters |->
                                    PyList(ex.ProvisioningArtifactParameters),
                                retries |-> 0]
                  /\ pc' = "write_output"
                  /\ error' = NoError
             ELSE IF ex.kind = "ClientError" /\ IsAccessDenied(ex)
             THEN /\ pc' = "sleep"
                  /\ UNCHANGED <<locals, error>>
             ELSE /\ pc' = "raised"
                  /\ error' = ex.message
                  /\ UNCHANGED locals
    /\ UNCHANGED <<sleeps, output, describeFrame>>

\* time.sleep(3); retries -= 1; back to the loop condition
DoDescribe_sleep ==
    /\ pc = "sleep"
    /\ sleeps' = sleeps + 1
    /\ locals' = [locals EXCEPT !.retries = locals.retries - 1]
    /\ pc' = IF locals.retries - 1 > 0 THEN "while" ELSE "write_output"
    /\ UNCHANGED <<calls, error, output, describeFrame>>

\* self.write_output(...) after the loop
DoDescribe_write_output ==
    /\ pc = "write_output"
    /\ output' = <<IF locals.provisioning_artifact_parameters.type = "list"
                   THEN locals.provisioning_artifact_parameters
                   ELSE PyList(<<locals.provisioning_artifact_parameters>>)>>
    /\ pc' = "done"
    /\ UNCHANGED <<calls, error, locals, sleeps, describeFrame>>

NextDescribe ==
    \/ DoDescribe_try
    \/ DoDescribe_sleep
    \/ DoDescribe_write_output

SpecDescribe == InitDescribe /\ [][NextDescribe]_vars

---------------------------------------------------------------------------
(* SpecTerminate: the termination path of one item (TerminateProductTask,   *)
(* DoTerminateProductTask), together with ProvisionProductTask.run, which   *)
(* writes the parameters the termination deletes.                           *)

\* aws.ensure_is_terminated, as the specification describes it (section
\* 4.3): a product of this launch that is not terminated yet is terminated;
\* one that is terminated already, or absent, needs no call
ensure_is_terminated(products) ==
    IF Named(products) = {}
    THEN [provisioned_product_id |-> PyNone, provisioning_artifact_id |-> PyNone,
          products |-> products,
          calls |-> <<Call("scan_provisioned_products_single_page")>>]
    ELSE LET r == CHOOSE r \in Named(products) : TRUE
         IN IF r.Status = "TERMINATED"
            THEN [provisioned_product_id |-> r.Id,
                  provisioning_artifact_id |-> r.ProvisioningArtifactId,
                  products |-> products,
                  calls |-> <<Call("scan_provisioned_products_single_page")>>]
            ELSE [provisioned_product_id |-> r.Id,
                  provisioning_artifact_id |-> r.ProvisioningArtifactId,
                  products |-> products \ {r},
                  calls |-> <<Call("scan_provisioned_products_single_page"),
                              Call("terminate_provisioned_product")>>]

\* the service catalog calls of DoTerminateProductTask.run, with a terminate
\* call of its own added
TerminateCalls_TerminatesAgain(ensured) ==
    ensured.calls \o <<Call("terminate_provisioned_product")>>

\* the service catalog calls of DoTerminateProductTask.run
TerminateCalls(ensured) == ensured.calls

ParameterNotFound == "ParameterNotFound"

DeleteError == "AccessDeniedException"

\* an except clause that catches nothing
Swallowed_Nothing(ex) == FALSE

\* except ssm.exceptions.ParameterNotFound
Swallowed(ex) == ex = ParameterNotFound

\* d without key k
DictRemove(d, k) == [x \in (DOMAIN d) \ {k} |-> d[x]]

\* the name DoTerminateProductTask.run passes to ssm.delete_parameter
DeletedParameterName(ssm_param_output) == ssm_param_output.param_name

\* ssm.delete_parameter(Name=name): "deleted", or the exception it raises;
\* `fails` says the call meets an error of the service
DeleteParameter(store, name, fails) ==
    IF fails THEN DeleteError
    ELSE IF name \in DOMAIN store THEN "deleted"
    ELSE ParameterNotFound

\* the loop over self.ssm_param_outputs of DoTerminateProductTask.run: the
\* delete calls, what each did, the store after them, and the exception that
\* ended the loop; the call number `fault` (0: none) meets a service error
RECURSIVE DeleteSsmOutputs(_, _, _)
DeleteSsmOutputs(ssm_param_outputs, store, fault) ==
    IF ssm_param_outputs = <<>>
    THEN [calls |-> <<>>, outcomes |-> <<>>, store |-> store, error |-> NoError]
    ELSE LET param_name == DeletedParameterName(Head(ssm_param_outputs))
             call == [Call("delete_parameter") EXCEPT !.Name = param_name]
             outcome == DeleteParameter(store, param_name, fault = 1)
             after == IF outcome = "deleted" THEN DictRemove(store, param_name)
                      ELSE store
         IN IF outcome # "deleted" /\ ~Swallowed(outcome)
            THEN [calls |-> <<call>>, outcomes |-> <<outcome>>, store |-> after,
                  error |-> outcome]
            ELSE LET rest == DeleteSsmOutputs(Tail(ssm_param_outputs), after,
                                              IF fault = 0 THEN 0 ELSE fault - 1)
                 IN [calls |-> <<call>> \o rest.calls,
                     outcomes |-> <<outcome>> \o rest.outcomes,
                     store |-> rest.store, error |-> rest.error]

\* DoTerminateProductTask.run as a whole
DoTerminate(products, store, fault) ==
    LET ensured == ensure_is_terminated(products)
        deleted == DeleteSsmOutputs(self.ssm_param_outputs, store, fault)
    IN [calls |-> TerminateCalls(ensured) \o deleted.calls,
        products |-> ensured.products,
        store |-> deleted.store,
        outcomes |-> deleted.outcomes,
        error |-> deleted.error,
        log_output |-> IF deleted.error = NoError
                       THEN <<[launch_name |-> launch_name, account_id |-> account_id,
                               region |-> region,
                               provisioned_product_id |-> ensured.provisioned_product_id]>>
                       ELSE <<>>]

\* parameters found in the store when the item is first looked at
StoreChoices ==
    LET a == <<"/out/", region, "/", account_id, "/a">>
        b == <<"/out/b">>
        va == [Value |-> "a-value", Type |-> "StringList"]
        vb == [Value |-> "b-value", Type |-> "String"]
    IN { EmptyDict, DictSet(EmptyDict, a, va), DictSet(EmptyDict, b, vb),
         DictSet(DictSet(EmptyDict, a, va), b, vb) }

InitTerminate ==
    /\ input = [version_id |-> "pa-v1", all_params |-> EmptyDict,
                provisioning_artifact_parameters |->
                    <<[ParameterKey |-> "Foo", DefaultValue |-> "old"]>>]
    /\ \E execution \in {EXECUTION_MODE_HUB, EXECUTION_MODE_SPOKE},
          ssm_param_outputs \in SeqsUpTo(BindingChoices, MaxBindings) :
          self = [version |-> VersionName(input.version_id), execution |-> execution,
                  ssm_param_outputs |-> ssm_param_outputs]
    /\ \/ /\ ProvisionedProducts = {}
          /\ stack_parameters = EmptyDict
       \/ \E status \in ProductStatuses :
             /\ ProvisionedProducts =
                    {[Name |-> launch_name, Id |-> "pp-1",
                      ProvisioningArtifactId |-> "pa-v1", Status |-> status]}
             /\ stack_parameters =
                    IF status \in AvailableLike THEN [Foo |-> "old"] ELSE EmptyDict
    /\ parameter_store \in StoreChoices
    /\ task = "none"
    /\ calls = <<>>
    /\ locals = NoLocals
    /\ error = NoError
    /\ output = <<>>
    /\ warnings = <<>>
    /\ result = <<>>
    /\ before = Live
    /\ after_success = FALSE
    /\ prev_result = <<>>
    /\ NoGraph
    /\ NoDescribe
    /\ prev_run = NoPrevRun
    /\ NoSched

\* what a termination run leaves in its variables
TerminationRan(klass, done, written) ==
    /\ task' = klass
    /\ before' = Live
    /\ prev_run' = [task |-> task, calls |-> calls, error |-> error]
    /\ calls' = done.calls
    /\ locals' = [outcomes |-> done.outcomes, log_output |-> done.log_output]
    /\ ProvisionedProducts' = done.products
    /\ stack_parameters' = IF Named(done.products) = {} THEN EmptyDict
                           ELSE stack_parameters
    /\ parameter_store' = done.store
    /\ error' = done.error
    /\ output' = written
    /\ warnings' = <<>>
    /\ result' = <<>>
    /\ after_success' = FALSE
    /\ prev_result' = <<>>
    /\ UNCHANGED <<self, input, graphVars, describeVars, schedVars>>

\* one execution of DoTerminateProductTask.run
DoTerminateProductTask_run ==
    \E fault \in 0..Len(self.ssm_param_outputs) :
       \E done \in {DoTerminate(ProvisionedProducts, parameter_store, fault)} :
          TerminationRan("DoTerminateProductTask", done, done.log_output)

\* one execution of TerminateProductTask.run: the yielded
\* DoTerminateProductTask runs, then write_output
TerminateProductTask_run ==
    \E fault \in 0..Len(self.ssm_param_outputs) :
       \E done \in {DoTerminate(ProvisionedProducts, parameter_store, fault)} :
          TerminationRan("TerminateProductTask", done,
                         IF done.error = NoError
                         THEN <<params_for_results_display>> ELSE <<>>)

NextTerminate ==
    \/ ProvisionProductTask_run
    \/ DoTerminateProductTask_run
    \/ TerminateProductTask_run

SpecTerminate == InitTerminate /\ [][NextTerminate]_vars

---------------------------------------------------------------------------
(* SpecSched: scheduler runs over the task graph of a manifest.  Init draws *)
(* a manifest and builds the graph from the section task; every action is  *)
(* one step of the scheduler on one node, the end of a remote build, or the *)
(* start of the next scheduler run over the outputs the earlier one left.   *)
(* The scheduler itself (luigi, workflow/tasks.py) is modelled as the       *)
(* specification describes it (sections 3, 4.1 and 5).                      *)

CodeBuildRunNames == {"CB1"}

\* depends_on lists of the launch L1 in the manifests of the scheduler runs
SchedEdgeChoices ==
    { <<>>,
      <<[type |-> LAUNCH, affinity |-> LAUNCH, name |-> "L2"]>>,
      <<[type |-> CODE_BUILD_RUN, affinity |-> CODE_BUILD_RUN, name |-> "CB1"]>> }

\* values of the retry_count parameter a manifest gives a launch
RetryCounts == {1, 2}

\* values of the cache invalidator of a scheduler run
Invalidators == {"c1", "c2"}

\* number of scheduler runs over the same output store (SpecCache)
MaxRuns == 2

\* size of the worker pool
MaxWorkers == 2

Tiers ==
    {"LaunchTask", "LaunchForRegionTask", "LaunchForAccountTask",
     "LaunchForAccountAndRegionTask"}

\* the items of the manifest, by name: the launches and the code build runs.
\* tiers are the outer tiers the section requires the item through
SchedManifests ==
    { [name \in LaunchNames \cup CodeBuildRunNames |->
          IF name = "L1"
          THEN [execution |-> execution1, status |-> status,
                depends_on |-> depends_on, retry_count |-> retry_count,
                deploy_to |-> {<<"111111111111", "us-east-1">>},
                tiers |-> Tiers]
          ELSE IF name = "L2"
          THEN [execution |-> execution2, status |-> PROVISIONED,
                depends_on |-> <<>>, retry_count |-> 1,
                deploy_to |-> {<<"111111111111", "us-east-1">>},
                tiers |-> {"LaunchTask"}]
          ELSE [execution |-> EXECUTION_MODE_HUB, status |-> PROVISIONED,
                depends_on |-> <<>>, retry_count |-> 1,
                deploy_to |-> {<<"111111111111", "us-east-1">>},
                tiers |-> {}]] :
        execution1 \in {EXECUTION_MODE_HUB, EXECUTION_MODE_SPOKE},
        execution2 \in {EXECUTION_MODE_HUB, EXECUTION_MODE_SPOKE},
        status \in {PROVISIONED, TERMINATED},
        depends_on \in SchedEdgeChoices,
        retry_count \in RetryCounts }

\* manifest.get_tasks_for_launch_and_account
get_tasks_for_launch_and_account(m, name, account) ==
    {pair \in m[name].deploy_to : pair[1] = account}

\* manifest.get_tasks_for_launch_and_account_and_region
get_tasks_for_launch_and_account_and_region(m, name, account, reg) ==
    {pair \in m[name].deploy_to : pair[1] = account /\ pair[2] = reg}

\* manifest.get_account_ids_and_regions_used_for_section_item, as pairs
get_account_ids_and_regions_used_for_section_item(m, name) == m[name].deploy_to

\* manifest.get_account_ids_used_for_section_item
get_account_ids_used_for_section_item(m, name) ==
    {pair[1] : pair \in m[name].deploy_to}

\* SectionTask.handle_requirements_for: the section requires the item through
\* each of its tiers, the coarser tiers once per region or account of the item
handle_requirements_for(m, name) ==
    {Node("LaunchTask", name, PyNone, PyNone) : tier \in m[name].tiers \cap {"LaunchTask"}}
    \cup {Node("LaunchForRegionTask", name, PyNone, pair[2]) :
             pair \in {d \in m[name].deploy_to : "LaunchForRegionTask" \in m[name].tiers}}
    \cup {Node("LaunchForAccountTask", name, pair[1], PyNone) :
             pair \in {d \in m[name].deploy_to : "LaunchForAccountTask" \in m[name].tiers}}
    \cup {Node("LaunchForAccountAndRegionTask", name, pair[1], pair[2]) :
             pair \in {d \in m[name].deploy_to :
                         "LaunchForAccountAndRegionTask" \in m[name].tiers}}

\* LaunchSectionTask.requires, the run being a hub run
LaunchSectionTask_requires(m) ==
    UNION { IF m[name].execution # EXECUTION_MODE_SPOKE
            THEN handle_requirements_for(m, name)
            ELSE {Node("LaunchForSpokeExecutionTask", name, PyNone, PyNone)} :
            name \in LaunchNames }

\* DependenciesMixin.get_section_dependencies: one task per depends_on edge,
\* chosen by the affinity of the edge
get_section_dependencies(m, name) ==
    LET got == SpokeDependencies(m, m[name].depends_on).these_dependencies
    IN {got[i] : i \in DOMAIN got}

\* the class LaunchTask.requires instantiates with every task of the launch
LaunchTask_klass_AlwaysProvision(m, name) == "ProvisionProductTask"

LaunchTask_klass(m, name) == get_klass_for_provisioning(m[name].status, FALSE)

\* LaunchTask.requires with the loop over the tasks never entered
LaunchTask_requires_NoItems(m, name) == {}

\* LaunchTask.requires
LaunchTask_requires(m, name) ==
    LET klass == LaunchTask_klass(m, name)
    IN UNION { { Node(klass, name, item[1], item[2]) :
                   item \in get_tasks_for_launch_and_account_and_region(m, name, pair[1], pair[2]) } :
               pair \in get_account_ids_and_regions_used_for_section_item(m, name) }

\* LaunchForRegionTask.requires: dependencies and these_dependencies
LaunchForRegionTask_requirements(m, name, reg) ==
    LET klass == get_klass_for_provisioning(m[name].status, FALSE)
        these_dependencies == RegionDependencies(m[name].depends_on, reg)
    IN {Node(klass, name, item[1], item[2]) :
           item \in get_tasks_for_launch_and_region(m, name, reg)}
       \cup {these_dependencies[i] : i \in DOMAIN these_dependencies}

\* LaunchForAccountTask.requires
LaunchForAccountTask_requires(m, name, account) ==
    LET klass == get_klass_for_provisioning(m[name].status, FALSE)
    IN {Node(klass, name, item[1], item[2]) :
           item \in get_tasks_for_launch_and_account(m, name, account)}

\* LaunchForAccountAndRegionTask.requires
LaunchForAccountAndRegionTask_requires(m, name, account, reg) ==
    LET klass == get_klass_for_provisioning(m[name].status, FALSE)
    IN {Node(klass, name, item[1], item[2]) :
           item \in get_tasks_for_launch_and_account_and_region(m, name, account, reg)}

\* ProvisionProductTask.requires: the section dependencies and the parameters
\* of the version (the requirements on tasks of other modules are left out)
ProvisionProductTask_requires(m, n) ==
    get_section_dependencies(m, n.name)
    \cup {Node("ProvisioningArtifactParametersTask", n.name, PyNone, n.region)}

\* TerminateProductTask.requires
TerminateProductTask_requires(m, n) == get_section_dependencies(m, n.name)

\* CodeBuildRunTask.requires
CodeBuildRunTask_requires(m, name) ==
    UNION { { Node("ExecuteCodeBuildRunTask", name, item[1], item[2]) :
                item \in get_tasks_for_launch_and_account_and_region(m, name, pair[1], pair[2]) } :
            pair \in get_account_ids_and_regions_used_for_section_item(m, name) }

\* requires() of a node
Requires(m, n) ==
    CASE n.klass = "LaunchSectionTask" -> LaunchSectionTask_requires(m)
      [] n.klass = "LaunchTask" -> LaunchTask_requires(m, n.name)
      [] n.klass = "LaunchForRegionTask" ->
            LaunchForRegionTask_requirements(m, n.name, n.region)
      [] n.klass = "LaunchForAccountTask" ->
            LaunchForAccountTask_requires(m, n.name, n.account_id)
      [] n.klass = "LaunchForAccountAndRegionTask" ->
            LaunchForAccountAndRegionTask_requires(m, n.name, n.account_id, n.region)
      [] n.klass = "LaunchForSpokeExecutionTask" -> get_section_dependencies(m, n.name)
      [] n.klass = "ProvisionProductTask" -> ProvisionProductTask_requires(m, n)
      [] n.klass = "TerminateProductTask" -> TerminateProductTask_requires(m, n)
      [] n.klass = "CodeBuildRunTask" -> CodeBuildRunTask_requires(m, n.name)
      [] n.klass = "ExecuteCodeBuildRunTask" -> get_section_dependencies(m, n.name)
      [] OTHER -> {}

\* LaunchForSpokeExecutionTask.get_tasks with the launch in the identity of
\* the task it returns
get_tasks_PerLaunch(m, name) ==
    {Node("RunDeployInSpokeTask", name, account, PyNone) :
        account \in get_account_ids_used_for_section_item(m, name)}

\* LaunchForSpokeExecutionTask.get_tasks
get_tasks(m, name) ==
    {Node("RunDeployInSpokeTask", PyNone, account, PyNone) :
        account \in get_account_ids_used_for_section_item(m, name)}

\* the tasks the run() of a node yields
Yields(m, n) ==
    CASE n.klass = "TerminateProductTask" ->
            {Node("DoTerminateProductTask", n.name, n.account_id, n.region)}
      [] n.klass = "ProvisioningArtifactParametersTask" ->
            {Node("DoDescribeProvisioningParameters", n.name, PyNone, n.region)}
      [] n.klass = "ExecuteCodeBuildRunTask" ->
            {Node("DoExecuteCodeBuildRunTask", n.name, n.account_id, n.region)}
      [] n.klass = "LaunchForSpokeExecutionTask" -> get_tasks(m, n.name)
      [] OTHER -> {}

\* whether the run() of the class writes its output before its yield
WritesOutputBeforeYield_Spoke(klass) == klass = "LaunchForSpokeExecutionTask"

WritesOutputBeforeYield(klass) == FALSE

\* whether params_for_results_display of the class carries the cache invalidator
HasCacheInvalidator(klass) == klass # "DoDescribeProvisioningParameters"

\* PuppetTask.uid: the class and the values of params_for_results_display
uid(n, c) ==
    [node |-> n,
     cache_invalidator |-> IF HasCacheInvalidator(n.klass) THEN c ELSE PyNone]

\* the classes whose run() issues remote calls, which can fail
Fallible ==
    {"ProvisionProductTask", "DoTerminateProductTask", "DoDescribeProvisioningParameters",
     "RunDeployInSpokeTask", "DoExecuteCodeBuildRunTask"}

\* retry_count of a task without a parameter or property of that name
DefaultRetryCount == 1

\* retry_count of a node
retry_count(m, n) ==
    IF n.klass \in {"ProvisionProductTask", "TerminateProductTask", "DoTerminateProductTask"}
    THEN m[n.name].retry_count
    ELSE IF n.klass = "ProvisioningArtifactParametersTask" THEN 5
    ELSE DefaultRetryCount

\* whether the call RunDeployInSpokeTask.run starts its build with waits for
\* the build to end: it is start_build, which returns once the build is queued
start_build_waits == FALSE

\* the graph the scheduler builds from the root: everything requires() reaches
RECURSIVE Closure(_, _)
Closure(m, S) ==
    LET T == S \cup UNION {Requires(m, n) : n \in S}
    IN IF T = S THEN S ELSE Closure(m, T)

Root == Node("LaunchSectionTask", PyNone, PyNone, PyNone)

Scheduled(m) == [n \in Closure(m, {Root}) |-> [state |-> "PENDING", runs |-> 0]]

NoBuilds == [a \in Accounts |-> "NONE"]

InitSched ==
    /\ manifest \in SchedManifests
    /\ requirements = NoRequirements
    /\ raised = NoError
    /\ caller = Node("none", PyNone, PyNone, PyNone)
    /\ NoRun
    /\ NoDescribe
    /\ prev_run = NoPrevRun
    /\ sched = Scheduled(manifest)
    /\ outputs = <<>>
    /\ builds = NoBuilds
    /\ invalidator = "c1"
    /\ run_no = 1

Nodes == DOMAIN sched

StateOf(n) == sched[n].state

\* the output of the node exists
Complete(n) == uid(n, invalidator) \in DOMAIN outputs

Running == {n \in Nodes : StateOf(n) = "RUNNING"}

\* write_output
WriteOutput(outs, key) ==
    [k \in (DOMAIN outs) \cup {key} |->
        IF k = key THEN (IF key \in DOMAIN outs THEN outs[key] + 1 ELSE 1)
        ELSE outs[k]]

SetState(n, state) == [sched EXCEPT ![n].state = state]

schedFrame == <<manifest, requirements, raised, caller, runVars, describeVars, prev_run>>

CanSkip(n) == StateOf(n) = "PENDING" /\ Complete(n)

\* the node is ready: its requirements completed
CanStart(n) ==
    /\ StateOf(n) = "PENDING"
    /\ ~Complete(n)
    /\ \A d \in Requires(manifest, n) : StateOf(d) = "DONE"

CanResume(n) ==
    /\ StateOf(n) = "SUSPENDED"
    /\ \A y \in Yields(manifest, n) : StateOf(y) = "DONE"

\* the scheduler finds the output of a pending node: the node is complete
\* and its run() is not executed
Sched_Skip(n) ==
    /\ CanSkip(n)
    /\ sched' = SetState(n, "DONE")
    /\ UNCHANGED <<outputs, builds, invalidator, run_no, schedFrame>>

\* a worker starts the run() of a pending node whose requirements completed
Sched_Start(n) ==
    /\ CanStart(n)
    /\ Cardinality(Running) < MaxWorkers
    /\ sched' = [sched EXCEPT ![n] = [state |-> "RUNNING", runs |-> @.runs + 1]]
    /\ UNCHANGED <<outputs, builds, invalidator, run_no, schedFrame>>

\* the run() of a node reaches its yield: the yielded tasks join the graph
\* and the node waits for them
Sched_Yield(n) ==
    /\ StateOf(n) = "RUNNING"
    /\ Yields(manifest, n) # {}
    /\ sched' = [m \in Nodes \cup Yields(manifest, n) |->
                    IF m = n THEN [state |-> "SUSPENDED", runs |-> sched[n].runs]
                    ELSE IF m \in Nodes THEN sched[m]
                    ELSE [state |-> "PENDING", runs |-> 0]]
    /\ outputs' = IF WritesOutputBeforeYield(n.klass)
                  THEN WriteOutput(outputs, uid(n, invalidator))
                  ELSE outputs
    /\ UNCHANGED <<builds, invalidator, run_no, schedFrame>>

\* the yielded tasks completed: the run() of the node goes on to write_output
Sched_Resume(n) ==
    /\ CanResume(n)
    /\ sched' = SetState(n, "DONE")
    /\ outputs' = IF WritesOutputBeforeYield(n.klass) THEN outputs
                  ELSE WriteOutput(outputs, uid(n, invalidator))
    /\ UNCHANGED <<builds, invalidator, run_no, schedFrame>>

\* the run() of a node that yields nothing returns: RunDeployInSpokeTask has
\* started its build by then
Sched_Succeed(n) ==
    /\ StateOf(n) = "RUNNING"
    /\ Yields(manifest, n) = {}
    /\ sched' = SetState(n, "DONE")
    /\ outputs' = WriteOutput(outputs, uid(n, invalidator))
    /\ builds' = IF n.klass = "RunDeployInSpokeTask"
                 THEN [builds EXCEPT ![n.account_id] =
                          IF start_build_waits THEN "SUCCEEDED" ELSE "IN_PROGRESS"]
                 ELSE builds
    /\ UNCHANGED <<invalidator, run_no, schedFrame>>

\* the run() of a node raises: the scheduler runs it again while it has
\* tries left, and marks it failed when it has none
Sched_Fail(n) ==
    /\ StateOf(n) = "RUNNING"
    /\ n.klass \in Fallible
    /\ sched' = SetState(n, IF sched[n].runs < retry_count(manifest, n)
                            THEN "PENDING" ELSE "FAILED")
    /\ UNCHANGED <<outputs, builds, invalidator, run_no, schedFrame>>

\* the build started in the account ends
BuildEnds(account, status) ==
    /\ builds[account] = "IN_PROGRESS"
    /\ builds' = [builds EXCEPT ![account] = status]
    /\ UNCHANGED <<sched, outputs, invalidator, run_no, schedFrame>>

\* no step of the scheduler is possible: the scheduler run is over
Quiescent ==
    /\ Running = {}
    /\ \A n \in Nodes : ~CanSkip(n) /\ ~CanStart(n) /\ ~CanResume(n)

\* the outcome the scheduler reports for the run
ExitCode == IF \E n \in Nodes : StateOf(n) = "FAILED" THEN 1 ELSE 0

\* a run over an empty output store: no output is found
NextSched ==
    \/ \E n \in Nodes : Sched_Start(n)
    \/ \E n \in Nodes : Sched_Yield(n)
    \/ \E n \in Nodes : Sched_Resume(n)
    \/ \E n \in Nodes : Sched_Succeed(n)
    \/ \E n \in Nodes : Sched_Fail(n)
    \/ \E account \in Accounts, status \in {"SUCCEEDED", "FAILED"} : BuildEnds(account, status)

SpecSched == InitSched /\ [][NextSched]_vars

---------------------------------------------------------------------------
(* SpecCache: scheduler runs one after the other over the outputs the      *)
(* earlier runs left, each with its own cache invalidator.                  *)

\* the manifests of SpecCache: two launches without dependencies
CacheManifests ==
    {m \in SchedManifests : m["L1"].depends_on = <<>> /\ m["L1"].retry_count = 1
                               /\ m["L2"].execution = EXECUTION_MODE_SPOKE}

InitCache ==
    /\ InitSched
    /\ manifest \in CacheManifests

\* the scheduler run is over and the next one starts, over the same outputs
NewRun(c) ==
    /\ run_no < MaxRuns
    /\ Quiescent
    /\ run_no' = run_no + 1
    /\ invalidator' = c
    /\ sched' = Scheduled(manifest)
    /\ UNCHANGED <<outputs, builds, schedFrame>>

NextCache ==
    \/ NextSched
    \/ \E n \in Nodes : Sched_Skip(n)
    \/ \E c \in Invalidators : NewRun(c)

SpecCache == InitCache /\ [][NextCache]_vars

---------------------------------------------------------------------------
(* SpecFanOut: the requires() of the section task and of the four tiers of  *)
(* a launch.  Init draws a manifest; every action is one call of requires() *)
(* and leaves what it returned, or raised, in the variables.                *)

\* depends_on lists of the launch L1 in the manifests of SpecFanOut
FanOutEdgeChoices ==
    { <<>>,
      <<[type |-> LAUNCH, affinity |-> LAUNCH, name |-> "L2"]>>,
      <<[type |-> LAUNCH, affinity |-> "region", name |-> "L2"]>>,
      <<[type |-> LAUNCHES, affinity |-> "region", name |-> "L2"]>> }

\* what a launch can declare as its status; Undeclared: no status key
Undeclared == "undeclared"

StatusChoices == {PROVISIONED, TERMINATED, "deleted", Undeclared}

\* the launch L1 of the manifests of SpecFanOut
FanOutLaunch(execution, declared, depends_on) ==
    IF declared = Undeclared
    THEN [execution |-> execution, depends_on |-> depends_on,
          deploy_to |-> {<<"111111111111", "us-east-1">>,
                         <<"111111111111", "eu-west-1">>,
                         <<"222222222222", "us-east-1">>},
          tiers |-> Tiers]
    ELSE [execution |-> execution, status |-> declared, depends_on |-> depends_on,
          deploy_to |-> {<<"111111111111", "us-east-1">>,
                         <<"111111111111", "eu-west-1">>,
                         <<"222222222222", "us-east-1">>},
          tiers |-> Tiers]

FanOutManifests ==
    { [name \in LaunchNames |->
          IF name = "L1" THEN FanOutLaunch(execution1, declared, depends_on)
          ELSE [execution |-> execution2, status |-> PROVISIONED, depends_on |-> <<>>,
                deploy_to |-> {<<"111111111111", "us-east-1">>,
                               <<"222222222222", "eu-west-1">>},
                tiers |-> {"LaunchTask"}]] :
        execution1 \in {EXECUTION_MODE_HUB, EXECUTION_MODE_SPOKE},
        execution2 \in {EXECUTION_MODE_HUB, EXECUTION_MODE_SPOKE},
        declared \in StatusChoices,
        depends_on \in FanOutEdgeChoices }

\* PuppetTask.is_running_in_spoke
is_running_in_spoke(execution_mode) == execution_mode = EXECUTION_MODE_SPOKE

\* one iteration of the loop of LaunchSectionTask.requires with the spoke
\* launches of a hub run fanned out as well
LaunchSectionItem_FansOutSpokeLaunches(m, name, execution_mode) ==
    IF is_running_in_spoke(execution_mode)
    THEN IF m[name].execution = EXECUTION_MODE_SPOKE
         THEN handle_requirements_for(m, name)
         ELSE {}
    ELSE handle_requirements_for(m, name)
         \cup (IF m[name].execution # EXECUTION_MODE_SPOKE THEN {}
               ELSE {Node("LaunchForSpokeExecutionTask", name, PyNone, PyNone)})

\* one iteration of the loop of LaunchSectionTask.requires: what the launch
\* adds to the requirements
LaunchSectionItem(m, name, execution_mode) ==
    IF is_running_in_spoke(execution_mode)
    THEN IF m[name].execution = EXECUTION_MODE_SPOKE
         THEN handle_requirements_for(m, name)
         ELSE {}
    ELSE IF m[name].execution # EXECUTION_MODE_SPOKE
         THEN handle_requirements_for(m, name)
         ELSE {Node("LaunchForSpokeExecutionTask", name, PyNone, PyNone)}

\* the tasks LaunchTask.requires instantiates
LaunchTask_dependencies(m, name, klass) ==
    UNION { { Node(klass, name, item[1], item[2]) :
                item \in get_tasks_for_launch_and_account_and_region(m, name, pair[1], pair[2]) } :
            pair \in get_account_ids_and_regions_used_for_section_item(m, name) }

\* the tasks LaunchForRegionTask.requires instantiates
LaunchForRegionTask_dependencies(m, name, reg, klass) ==
    {Node(klass, name, item[1], item[2]) : item \in get_tasks_for_launch_and_region(m, name, reg)}

\* the tasks LaunchForAccountTask.requires instantiates
LaunchForAccountTask_dependencies(m, name, account, klass) ==
    {Node(klass, name, item[1], item[2]) :
        item \in get_tasks_for_launch_and_account(m, name, account)}

\* LaunchForAccountAndRegionTask.requires asking the manifest for the tasks
\* of the account in every region
LaunchForAccountAndRegionTask_dependencies_AnyRegion(m, name, account, reg, klass) ==
    {Node(klass, name, item[1], item[2]) :
        item \in get_tasks_for_launch_and_account(m, name, account)}

\* the tasks LaunchForAccountAndRegionTask.requires instantiates
LaunchForAccountAndRegionTask_dependencies(m, name, account, reg, klass) ==
    {Node(klass, name, item[1], item[2]) :
        item \in get_tasks_for_launch_and_account_and_region(m, name, account, reg)}

NoSelf == [is_dry_run |-> FALSE, execution_mode |-> EXECUTION_MODE_HUB]

InitFanOut ==
    /\ manifest \in FanOutManifests
    /\ requirements = NoRequirements
    /\ raised = NoError
    /\ caller = Node("none", PyNone, PyNone, PyNone)
    /\ self = NoSelf
    /\ input = [version_id |-> PyNone, all_params |-> EmptyDict,
                provisioning_artifact_parameters |-> <<>>]
    /\ ProvisionedProducts = {}
    /\ stack_parameters = EmptyDict
    /\ parameter_store = EmptyDict
    /\ task = "none"
    /\ calls = <<>>
    /\ locals = NoLocals
    /\ error = NoError
    /\ output = <<>>
    /\ warnings = <<>>
    /\ result = <<>>
    /\ before = Live
    /\ after_success = FALSE
    /\ prev_result = <<>>
    /\ NoExt

fanOutFrame ==
    <<manifest, input, ProvisionedProducts, stack_parameters, parameter_store, task,
      calls, locals, error, output, warnings, result, before, after_success,
      prev_result, extVars>>

\* what a call of the requires() of a tier leaves: the class is chosen
\* first, and no task is instantiated when that raises
TierRequired(node, is_dry_run, klass, dependencies, these_dependencies) ==
    /\ caller' = node
    /\ self' = [is_dry_run |-> is_dry_run, execution_mode |-> EXECUTION_MODE_HUB]
    /\ raised' = IF klass = UnknownStatus THEN UnknownStatus ELSE NoError
    /\ requirements' =
          IF klass = UnknownStatus THEN NoRequirements
          ELSE [dependencies |-> dependencies, these_dependencies |-> these_dependencies]
    /\ UNCHANGED fanOutFrame

FanOut_LaunchSectionTask_requires(execution_mode) ==
    /\ caller' = Root
    /\ self' = [is_dry_run |-> FALSE, execution_mode |-> execution_mode]
    /\ raised' = NoError
    /\ requirements' =
          [dependencies |->
              UNION {LaunchSectionItem(manifest, name, execution_mode) : name \in LaunchNames},
           these_dependencies |-> <<>>]
    /\ UNCHANGED fanOutFrame

FanOut_LaunchTask_requires(launch, is_dry_run) ==
    LET klass == get_klass_for_provisioning(ProvisioningTask_status(manifest, launch), is_dry_run)
    IN TierRequired(Node("LaunchTask", launch, PyNone, PyNone), is_dry_run, klass,
                    LaunchTask_dependencies(manifest, launch, klass), <<>>)

FanOut_LaunchForRegionTask_requires(launch, reg, is_dry_run) ==
    LET klass == get_klass_for_provisioning(ProvisioningTask_status(manifest, launch), is_dry_run)
    IN TierRequired(Node("LaunchForRegionTask", launch, PyNone, reg), is_dry_run, klass,
                    LaunchForRegionTask_dependencies(manifest, launch, reg, klass),
                    RegionDependencies(manifest[launch].depends_on, reg))

FanOut_LaunchForAccountTask_requires(launch, account, is_dry_run) ==
    LET klass == get_klass_for_provisioning(ProvisioningTask_status(manifest, launch), is_dry_run)
    IN TierRequired(Node("LaunchForAccountTask", launch, account, PyNone), is_dry_run, klass,
                    LaunchForAccountTask_dependencies(manifest, launch, account, klass), <<>>)

FanOut_LaunchForAccountAndRegionTask_requires(launch, account, reg, is_dry_run) ==
    LET klass == get_klass_for_provisioning(ProvisioningTask_status(manifest, launch), is_dry_run)
    IN TierRequired(Node("LaunchForAccountAndRegionTask", launch, account, reg), is_dry_run,
                    klass,
                    LaunchForAccountAndRegionTask_dependencies(manifest, launch, account, reg, klass),
                    <<>>)

\* the kinds of the innermost tier
ItemKinds ==
    {"ProvisionProductTask", "ProvisionProductDryRunTask",
     "TerminateProductTask", "TerminateProductDryRunTask"}

\* the remote call a run of an innermost task starts with
FirstCall(klass) ==
    IF klass = "TerminateProductDryRunTask" THEN "get_provisioned_product_details"
    ELSE "scan_provisioned_products_single_page"

\* an innermost task that a tier instantiated starts to run: its first remote
\* call, for the launch, account and region it is bound to
FanOut_Item_run(node) ==
    /\ raised = NoError
    /\ node \in requirements.dependencies
    /\ node.klass \in ItemKinds
    /\ task' = node.klass
    /\ calls' = <<[api |-> FirstCall(node.klass), launch_name |-> node.name,
                   account_id |-> node.account_id, region |-> node.region]>>
    /\ UNCHANGED <<manifest, requirements, raised, caller, self, input,
                   ProvisionedProducts, stack_parameters, parameter_store, locals,
                   error, output, warnings, result, before, after_success,
                   prev_result, extVars>>

NextFanOut ==
    \/ \E execution_mode \in {EXECUTION_MODE_HUB, EXECUTION_MODE_SPOKE} :
          FanOut_LaunchSectionTask_requires(execution_mode)
    \/ \E launch \in LaunchNames, is_dry_run \in BOOLEAN :
          FanOut_LaunchTask_requires(launch, is_dry_run)
    \/ \E launch \in LaunchNames, reg \in Regions, is_dry_run \in BOOLEAN :
          FanOut_LaunchForRegionTask_requires(launch, reg, is_dry_run)
    \/ \E launch \in LaunchNames, account \in Accounts, is_dry_run \in BOOLEAN :
          FanOut_LaunchForAccountTask_requires(launch, account, is_dry_run)
    \/ \E launch \in LaunchNames, account \in Accounts, reg \in Regions, is_dry_run \in BOOLEAN :
          FanOut_LaunchForAccountAndRegionTask_requires(launch, account, reg, is_dry_run)
    \/ \E node \in requirements.dependencies : FanOut_Item_run(node)

SpecFanOut == InitFanOut /\ [][NextFanOut]_vars

---------------------------------------------------------------------------
(* Properties of the runs (Spec) *)

ProvisionRan == task = "ProvisionProductTask"

ReadApis ==
    {"scan_provisioned_products_single_page", "describe_provisioning_artifact",
     "get_parameters_for_stack", "get_provisioned_product_details"}

\* the resolved parameters of the desired state
Resolved == ParamsToUse(input.provisioning_artifact_parameters, input.all_params)

\* the live state `live` is the desired state: the product of the launch is
\* AVAILABLE at the desired version and its stack carries the resolved parameters
Converged(live) ==
    /\ \E r \in live.ProvisionedProducts :
          /\ r.Name = launch_name
          /\ r.Status = "AVAILABLE"
          /\ r.ProvisioningArtifactId = input.version_id
    /\ live.stack_parameters = Resolved

\* the run attempted the provisioning step: it issued a provision, update or
\* plan call, or the check of the stack status stopped it on the way there
Attempted(apis) ==
    \/ ApisOf(calls) \cap apis # {}
    \/ error = StackStatusError

UpdateApis == {"update_provisioned_product", "provision_product_with_plan"}

\* C1: a ProvisionProductTask run that follows a successful one and finds the
\* live state converged (desired version, AVAILABLE, resolved parameters)
\* classifies NO_CHANGE and issues no mutating call at all: no terminate,
\* provision, update or plan and no parameter-store put, in every execution
\* mode and for every list of output bindings.
C1_SecondRunIssuesNoMutatingCall ==
    (ProvisionRan /\ after_success /\ Converged(before))
        => /\ ~locals.need_to_provision
           /\ ApisOf(calls) \cap MutatingApis = {}

\* C2: a dry run (ProvisionProductDryRunTask or TerminateProductDryRunTask)
\* issues read calls only, leaves the live state and the parameter store as
\* they were, and repeated on the same inputs writes the same result.
C2_DryRunPurity ==
    task \in {"ProvisionProductDryRunTask", "TerminateProductDryRunTask"}
        => /\ ApisOf(calls) \subseteq ReadApis
           /\ Live = before
           /\ output = <<>>
           /\ (prev_result # <<>> => result = prev_result)

C2_Witness ==
    /\ task = "ProvisionProductDryRunTask"
    /\ prev_result # <<>>
    /\ Len(result) = 1
    /\ result[1].effect = CHANGE
    /\ locals.provisioned_product_status = "TAINTED"

\* C3: the dry run reports CHANGE exactly when ProvisionProductTask, run on
\* the same inputs, issues a provision, update or plan call, and NO_CHANGE
\* exactly when it issues none.
C3_DryRunAgreesWithRun ==
    (ProvisionRan /\ prev_result # <<>>)
        => /\ (prev_result[1].effect = CHANGE) <=> (ApisOf(calls) \cap ProvisionApis # {})
           /\ (prev_result[1].effect = NO_CHANGE) <=> (ApisOf(calls) \cap ProvisionApis = {})

\* C4: when the pre-check returns status TAINTED the run needs to provision
\* and attempts the update, also when version and parameters are unchanged.
C4_TaintedOverride ==
    (ProvisionRan /\ locals.provisioned_product_status = "TAINTED")
        => /\ locals.need_to_provision
           /\ Attempted(UpdateApis)

C4_Witness ==
    /\ ProvisionRan
    /\ locals.provisioned_product_status = "TAINTED"
    /\ locals.provisioning_artifact_id = input.version_id
    /\ before.stack_parameters = Resolved
    /\ ApisOf(calls) \cap UpdateApis # {}

\* C5: when the desired version id differs from the live provisioning
\* artifact id the run classifies CHANGE and attempts a provision, update or
\* plan call, whether or not the live stack parameters equal the resolved ones.
C5_VersionDiffTriggersUpdate ==
    (ProvisionRan /\ locals.provisioning_artifact_id # input.version_id)
        => /\ locals.need_to_provision
           /\ Attempted(ProvisionApis)

C5_Witness ==
    /\ ProvisionRan
    /\ Truthy(locals.provisioned_product_id)
    /\ locals.provisioning_artifact_id # input.version_id
    /\ locals.provisioned_product_status = "AVAILABLE"
    /\ before.stack_parameters = Resolved
    /\ ApisOf(calls) \cap UpdateApis # {}

\* C6: same version, a live product, live stack parameters that differ from
\* the resolved map: the run takes the update path (no create call), and the
\* one update or plan call it issues carries the resolved map that was
\* compared, not the live parameters.
C6_ParameterDiffUpdatesWithResolvedMap ==
    (/\ ProvisionRan
     /\ locals.provisioning_artifact_id = input.version_id
     /\ Truthy(locals.provisioned_product_id)
     /\ before.stack_parameters # Resolved)
        => /\ locals.need_to_provision
           /\ locals.provisioned_parameters = before.stack_parameters
           /\ locals.params_to_use = Resolved
           /\ "provision_product" \notin ApisOf(calls)
           /\ Attempted(UpdateApis)
           /\ LET sent == CallsTo(calls, ProvisionApis)
              IN error # StackStatusError
                    => /\ Len(sent) = 1
                       /\ sent[1].Parameters = Resolved
                       /\ sent[1].Parameters # before.stack_parameters
                       /\ stack_parameters = Resolved

C6_Witness ==
    /\ ProvisionRan
    /\ locals.provisioning_artifact_id = input.version_id
    /\ locals.provisioned_product_status = "AVAILABLE"
    /\ before.stack_parameters = [Foo |-> "old"]
    /\ Resolved = [Foo |-> "new"]
    /\ "update_provisioned_product" \in ApisOf(calls)

\* C7: a live product and an update due: with a stack status outside
\* UPDATE_COMPLETE, CREATE_COMPLETE, UPDATE_ROLLBACK_COMPLETE the run fails,
\* issues no provision, update or plan call, writes nothing to the parameter
\* store and writes no output; with UPDATE_ROLLBACK_COMPLETE it warns and
\* goes on to the update.
C7_StackStatusGuard ==
    (ProvisionRan /\ Truthy(locals.provisioned_product_id) /\ locals.need_to_provision)
        => /\ locals.stack_status \in StackStatuses
           /\ locals.stack_status \notin HealthyStackStatuses
                 => /\ error # NoError
                    /\ ApisOf(calls) \cap ProvisionApis = {}
                    /\ "put_parameter_and_wait" \notin ApisOf(calls)
                    /\ parameter_store = before.parameter_store
                    /\ output = <<>>
           /\ locals.stack_status = "UPDATE_ROLLBACK_COMPLETE"
                 => /\ warnings # <<>>
                    /\ ApisOf(calls) \cap UpdateApis # {}
           /\ locals.stack_status \in {"UPDATE_COMPLETE", "CREATE_COMPLETE"}
                 => /\ warnings = <<>>
                    /\ ApisOf(calls) \cap UpdateApis # {}

C7_Witness ==
    /\ ProvisionRan
    /\ locals.stack_status = "UPDATE_ROLLBACK_FAILED"
    /\ self.execution = EXECUTION_MODE_HUB
    /\ self.ssm_param_outputs # <<>>
    /\ error = StackStatusError

OutputKeys(Outputs) == {Outputs[i].OutputKey : i \in DOMAIN Outputs}

\* the run got as far as the output bindings: the provisioning step is behind it
ReachedBindings ==
    /\ ProvisionRan
    /\ self.execution = EXECUTION_MODE_HUB
    /\ error # StackStatusError

\* C8: in hub execution, a declared binding whose stack_output is not among
\* the stack outputs fails the run, after a provision, an update or no change
\* alike, and the run writes no output.
C8_MissingOutputBindingIsFatal ==
    (/\ ReachedBindings
     /\ \E i \in DOMAIN self.ssm_param_outputs :
           self.ssm_param_outputs[i].stack_output \notin OutputKeys(locals.Outputs))
        => /\ error # NoError
           /\ output = <<>>

C8_Witness ==
    /\ ReachedBindings
    /\ "provision_product" \in ApisOf(calls)
    /\ Len(self.ssm_param_outputs) = 2
    /\ self.ssm_param_outputs[1].stack_output \in OutputKeys(locals.Outputs)
    /\ self.ssm_param_outputs[2].stack_output \notin OutputKeys(locals.Outputs)
    /\ error = CouldNotFindMatch

\* the put the claim describes for binding b: the output's value, overwrite
\* on, the name with the region and account tokens replaced
ExpectedPut(b, Outputs) ==
    LET out == CHOOSE o \in {Outputs[i] : i \in DOMAIN Outputs} :
                   o.OutputKey = b.stack_output
        text == b.param_name
    IN [api |-> "put_parameter_and_wait",
        ProvisioningArtifactId |-> PyNone, Parameters |-> EmptyDict,
        Name |-> [j \in DOMAIN text |->
                     IF text[j] = "${AWS::Region}" THEN "us-east-1"
                     ELSE IF text[j] = "${AWS::AccountId}" THEN "111111111111"
                     ELSE text[j]],
        Value |-> out.OutputValue,
        Type |-> IF "param_type" \in DOMAIN b THEN b.param_type ELSE "String",
        Overwrite |-> TRUE]

ExpectedPuts(bindings, Outputs) ==
    [i \in DOMAIN bindings |-> ExpectedPut(bindings[i], Outputs)]

Present(bindings, Outputs) ==
    SelectSeq(bindings, LAMBDA b : b.stack_output \in OutputKeys(Outputs))

\* the bindings declared before the first one that has no matching output
RECURSIVE Reached(_, _)
Reached(bindings, Outputs) ==
    IF bindings = <<>> \/ Head(bindings).stack_output \notin OutputKeys(Outputs)
    THEN <<>>
    ELSE <<Head(bindings)>> \o Reached(Tail(bindings), Outputs)

Puts == CallsTo(calls, {"put_parameter_and_wait"})

\* C9 as claimed: in hub execution the run issues exactly one put for every
\* declared binding whose stack_output is among the stack outputs.
C9_OnePutPerPresentBinding ==
    ReachedBindings
        => Puts = ExpectedPuts(Present(self.ssm_param_outputs, locals.Outputs),
                               locals.Outputs)

\* C9 as amended: in hub execution the run issues exactly one put (overwrite
\* on, the output's value, the token-substituted name) for every declared
\* binding that has a matching output and is declared before the first
\* binding without one, and no other put; a run that completes has issued
\* one for every declared binding.
C9_OnePutPerReachedBinding ==
    /\ ReachedBindings
          => /\ Puts = ExpectedPuts(Reached(self.ssm_param_outputs, locals.Outputs),
                                    locals.Outputs)
             /\ error = NoError => Len(Puts) = Len(self.ssm_param_outputs)
             /\ \A i \in DOMAIN Puts :
                   /\ Puts[i].Name \in DOMAIN parameter_store
                   /\ i = Len(Puts) =>
                         parameter_store[Puts[i].Name].Value = Puts[i].Value
    /\ (ProvisionRan /\ ~ReachedBindings) => Puts = <<>>

C9_Witness ==
    /\ ReachedBindings
    /\ error = NoError
    /\ Len(Puts) = 2
    /\ Puts[1].Name = <<"/out/", "us-east-1", "/", "111111111111", "/a">>
    /\ Puts[1].Value = "a-value"
    /\ Puts[2].Name = <<"/out/b">>

---------------------------------------------------------------------------
(* Properties of the graph construction (SpecGraph) *)

EdgesOf(node) == LET d == manifest[node.name].depends_on IN {d[i] : i \in DOMAIN d}

\* C10 as claimed: whichever task processes it (LaunchForSpokeExecutionTask
\* or the fan-out tier LaunchForRegionTask), an edge whose affinity differs
\* from its type makes requires raise.
C10_AnyMismatchIsRejected ==
    (/\ caller.klass \in {"LaunchForSpokeExecutionTask", "LaunchForRegionTask"}
     /\ \E e \in EdgesOf(caller) : e.affinity # e.type)
        => raised # NoError

\* C10 as amended: LaunchForSpokeExecutionTask.requires raises for a launch
\* with an edge of a supported type whose affinity differs from its type (type
\* launch with affinity region among them); it then returns no dependency, and
\* no run body has executed and no remote call has been made.
C10_SpokeMismatchIsRejected ==
    (/\ caller.klass = "LaunchForSpokeExecutionTask"
     /\ \E e \in EdgesOf(caller) : e.type \in SupportedTypes /\ e.affinity # e.type)
        => /\ raised = AffinityError
           /\ requirements = NoRequirements
           /\ task = "none"
           /\ calls = <<>>

C10_Witness ==
    /\ caller.klass = "LaunchForSpokeExecutionTask"
    /\ manifest[caller.name].depends_on =
          <<[type |-> LAUNCH, affinity |-> LAUNCH, name |-> "L2"],
            [type |-> LAUNCH, affinity |-> "region", name |-> "L2"]>>
    /\ raised = AffinityError

---------------------------------------------------------------------------
(* Properties of DoDescribeProvisioningParameters.run (SpecDescribe) *)

\* the answers the run has consumed
Consumed == SubSeq(responses, 1, Len(calls))

Transient(ex) == ex.kind = "ClientError" /\ S3_ACCESS_DENIED \in {ex.message[i] : i \in DOMAIN ex.message}

AllTransient(answers) == \A i \in DOMAIN answers : Transient(answers[i])

\* C11: the run calls describe_provisioning_parameters at most 3 times, it
\* sleeps and retries only after the transient access-denied error, and
\* when all 3 attempts fail with that error the run ends failed and writes
\* no output.
C11_BoundedRetryThenEscalation ==
    /\ Len(calls) <= 3
    /\ sleeps <= Len(calls)
    /\ \A i \in 1..Len(calls) : i <= sleeps => Transient(responses[i])
    /\ (Len(calls) = 3 /\ AllTransient(Consumed) /\ pc \notin {"while", "sleep"})
          => /\ pc = "raised"
             /\ output = <<>>

\* C12: an error of the call that is not the transient access-denied error
\* ends the run where it occurs: the error is the run's error, no sleep and
\* no call follow it, and no output is written, however many transient
\* failures came before it.
C12_OtherErrorsPropagateAtOnce ==
    \A i \in 1..Len(calls) :
        (responses[i].kind # "ok" /\ ~Transient(responses[i]))
            => /\ i = Len(calls)
               /\ pc = "raised"
               /\ error = responses[i].message
               /\ sleeps = i - 1
               /\ AllTransient(SubSeq(responses, 1, i - 1))
               /\ output = <<>>

C12_Witness ==
    /\ pc = "raised"
    /\ Len(calls) = 3
    /\ sleeps = 2
    /\ responses[3].kind = "ClientError"
    /\ error = responses[3].message

---------------------------------------------------------------------------
(* Properties of the termination path (SpecTerminate) *)

TerminationTasks == {"TerminateProductTask", "DoTerminateProductTask"}

TerminateCallsIn(cs) == Len(CallsTo(cs, {"terminate_provisioned_product"}))

\* no product of the launch is left to terminate in the live state `live`
NothingToTerminate(live) ==
    \A r \in live.ProvisionedProducts :
        r.Name = launch_name => r.Status = "TERMINATED"

\* C18: a termination run that finds the product terminated already, or
\* absent, issues no terminate call and succeeds and writes its output
\* (unless a parameter delete meets a service error, which is C19's case);
\* two termination runs in a row issue at most one terminate call in total.
C18_TerminationIdempotence ==
    task \in TerminationTasks
        => /\ NothingToTerminate(before)
                 => /\ TerminateCallsIn(calls) = 0
                    /\ ProvisionedProducts = before.ProvisionedProducts
                    /\ error \in {NoError, DeleteError}
                    /\ error = NoError => output # <<>>
           /\ prev_run.task \in TerminationTasks
                 => /\ TerminateCallsIn(prev_run.calls) + TerminateCallsIn(calls) <= 1
                    /\ TerminateCallsIn(calls) = 0

C18_Witness ==
    /\ task = "TerminateProductTask"
    /\ prev_run.task = "TerminateProductTask"
    /\ TerminateCallsIn(prev_run.calls) = 1
    /\ NothingToTerminate(before)
    /\ error = NoError
    /\ output # <<>>

DeleteCalls == CallsTo(calls, {"delete_parameter"})

\* C19: in a termination run a delete that reports ParameterNotFound does
\* not fail the run: the run goes on to the remaining bindings and, when no
\* other error occurs, has issued one delete per declared binding and writes
\* its output; any other error of a delete fails the run at that call, with
\* no output.
C19_NotFoundOnDeleteIsSwallowed ==
    task \in TerminationTasks
        => /\ Len(locals.outcomes) = Len(DeleteCalls)
           /\ \A i \in DOMAIN locals.outcomes :
                 /\ locals.outcomes[i] = ParameterNotFound
                       => /\ error # ParameterNotFound
                          /\ i < Len(self.ssm_param_outputs) => i < Len(DeleteCalls)
                 /\ locals.outcomes[i] = DeleteError
                       => /\ i = Len(DeleteCalls)
                          /\ error = DeleteError
                          /\ output = <<>>
           /\ DeleteError \notin {locals.outcomes[i] : i \in DOMAIN locals.outcomes}
                 => /\ error = NoError
                    /\ Len(DeleteCalls) = Len(self.ssm_param_outputs)
                    /\ output # <<>>

C19_Witness ==
    /\ task = "DoTerminateProductTask"
    /\ Len(self.ssm_param_outputs) = 2
    /\ locals.outcomes = <<ParameterNotFound, "deleted">>
    /\ error = NoError
    /\ output # <<>>

NamesOf(cs) == {cs[i].Name : i \in DOMAIN cs}

\* C20: a termination run that follows a successful ProvisionProductTask
\* run of the same item deletes exactly the parameter names that run wrote,
\* and none of them remains in the parameter store.
C20_TerminationDeletesWhatProvisioningWrote ==
    (/\ task \in TerminationTasks
     /\ error = NoError
     /\ prev_run.task = "ProvisionProductTask"
     /\ prev_run.error = NoError
     /\ self.execution = EXECUTION_MODE_HUB)
        => LET written == NamesOf(CallsTo(prev_run.calls, {"put_parameter_and_wait"}))
           IN /\ NamesOf(DeleteCalls) = written
              /\ written \cap DOMAIN parameter_store = {}

---------------------------------------------------------------------------
(* Properties of the scheduler runs (SpecSched, SpecCache) *)

Written(n) == uid(n, invalidator) \in DOMAIN outputs

TerminalBuildStatuses == {"SUCCEEDED", "FAILED"}

\* C13: RunDeployInSpokeTask has written its output only when the build it
\* started in the spoke account has reached a terminal status; the task is
\* never complete while the build is still running.
C13_SpokeDispatchBlocksForCompletion ==
    \A n \in Nodes :
        n.klass = "RunDeployInSpokeTask" /\ (Written(n) \/ StateOf(n) = "DONE")
            => builds[n.account_id] \in TerminalBuildStatuses

\* what a node waits for: what it requires and what its run() yields
Deps(n) == Requires(manifest, n) \cup Yields(manifest, n)

RECURSIVE Upstream(_)
Upstream(S) ==
    LET T == S \cup UNION {Deps(n) : n \in S}
    IN IF T = S THEN S ELSE Upstream(T)

\* n depends on f, directly or through other nodes
DependsOn(n, f) == f \in Upstream(Deps(n))

Failed == {f \in Nodes : StateOf(f) = "FAILED"}

\* n requires f, directly or through other nodes
RequiresThrough(n, f) == f \in Upstream(Requires(manifest, n))

\* a failed node has written nothing and makes the outcome non-zero; the
\* LaunchTask of a failed ProvisionProductTask never ran
FailedNodes ==
    \A f \in Failed :
        /\ ~Written(f)
        /\ ExitCode # 0
        /\ f.klass = "ProvisionProductTask"
              => LET launch == Node("LaunchTask", f.name, PyNone, PyNone)
                 IN launch \in Nodes => StateOf(launch) = "PENDING" /\ sched[launch].runs = 0

\* once the scheduler has nothing left to do, every node that depends on no
\* failed node has completed
IndependentNodesComplete ==
    Quiescent
        => \A n \in Nodes \ Failed :
              (\A f \in Failed : ~DependsOn(n, f)) => StateOf(n) = "DONE" /\ Written(n)

\* C14, as stated: a node whose run failed has written no output; no node
\* that depends on it, directly or through other nodes, is running or has
\* completed; every node that depends on no failed node has completed once
\* the scheduler has nothing left to do; and the outcome is non-zero.
C14_DependentsNeverRun ==
    /\ FailedNodes
    /\ \A f \in Failed, n \in Nodes :
          DependsOn(n, f) => StateOf(n) \in {"PENDING", "SUSPENDED"} /\ ~Written(n)
    /\ IndependentNodesComplete

\* C14, amended: a node whose run failed has written no output; no node that
\* depends on it has completed or written output, a node that requires it,
\* directly or through other nodes, never started, and only a node that gets
\* it from its own yield can be running; every node that depends on no failed
\* node has completed once the scheduler has nothing left to do; and the
\* outcome is non-zero.
C14_FailurePropagationWithPartialSuccess ==
    /\ FailedNodes
    /\ \A f \in Failed, n \in Nodes :
          /\ DependsOn(n, f) => StateOf(n) # "DONE" /\ ~Written(n)
          /\ RequiresThrough(n, f) => StateOf(n) = "PENDING" /\ sched[n].runs = 0
          /\ DependsOn(n, f) /\ StateOf(n) = "RUNNING" => Yields(manifest, n) # {}
    /\ IndependentNodesComplete

\* the run is over, the ProvisionProductTask of L1 failed, its LaunchTask
\* never ran, and the ProvisionProductTask of the unrelated L2 completed
C14_Witness ==
    /\ Quiescent
    /\ \E f \in Failed, n \in Nodes :
          /\ f.klass = "ProvisionProductTask" /\ f.name = "L1"
          /\ manifest["L1"].depends_on = <<>>
          /\ n.klass = "ProvisionProductTask" /\ n.name = "L2"
          /\ StateOf(n) = "DONE"
          /\ StateOf(Node("LaunchTask", "L1", PyNone, PyNone)) = "PENDING"
          /\ StateOf(Node("LaunchTask", "L2", PyNone, PyNone)) = "DONE"

\* C15: a node whose run has started has all the nodes it requires completed,
\* with their outputs written; a node whose run yields has written its own
\* output only when every node it yielded completed with its output written;
\* while a yielded node is failed its parent has written nothing.
C15_TwoPhaseDependencyResolution ==
    \A n \in Nodes :
        /\ sched[n].runs > 0
              => \A d \in Requires(manifest, n) :
                    d \in Nodes /\ StateOf(d) = "DONE" /\ Written(d)
        /\ Yields(manifest, n) # {} /\ Written(n)
              => \A y \in Yields(manifest, n) :
                    y \in Nodes /\ StateOf(y) = "DONE" /\ Written(y)
        /\ (\E y \in Yields(manifest, n) \cap Nodes : StateOf(y) = "FAILED")
              => ~Written(n)

\* a LaunchForSpokeExecutionTask that wrote its output after the tasks it
\* yielded, while a TerminateProductTask waits on a failed DoTerminateProductTask
C15_Witness ==
    \E n \in Nodes, t \in Nodes :
        /\ n.klass = "LaunchForSpokeExecutionTask" /\ Written(n)
        /\ t.klass = "TerminateProductTask" /\ StateOf(t) = "SUSPENDED"
        /\ \E y \in Yields(manifest, t) \cap Nodes : StateOf(y) = "FAILED"

\* C16: a node whose output exists is not executed; a node that completed
\* without being executed has an output written under the cache invalidator
\* of this run; and no output is written twice.
C16_CacheShortCircuit ==
    /\ \A n \in Nodes :
          /\ StateOf(n) = "RUNNING" => ~Written(n)
          /\ StateOf(n) = "DONE" /\ sched[n].runs = 0
                => [node |-> n, cache_invalidator |-> invalidator] \in DOMAIN outputs
    /\ \A key \in DOMAIN outputs : outputs[key] = 1

MutatingKlasses == {"ProvisionProductTask", "TerminateProductTask", "DoTerminateProductTask"}

ItemKlasses == {"ProvisionProductTask", "TerminateProductTask"}

SameItem(n1, n2) ==
    n1.name = n2.name /\ n1.account_id = n2.account_id /\ n1.region = n2.region

\* one node per item, and no two mutating runs of an item at a time
OneNodePerItem ==
    /\ \A n1 \in Nodes, n2 \in Nodes :
          n1.klass \in ItemKlasses /\ n2.klass \in ItemKlasses /\ SameItem(n1, n2)
              => n1 = n2
    /\ \A n1 \in Running, n2 \in Running :
          n1.klass \in MutatingKlasses /\ n2.klass \in MutatingKlasses /\ SameItem(n1, n2)
              => n1 = n2

\* C17, as stated: within one scheduler run every item has at most one
\* ProvisionProductTask/TerminateProductTask node, the run body of the node
\* executes at most once, and no two mutating run bodies of an item overlap.
C17_RunBodyExecutesAtMostOnce ==
    /\ OneNodePerItem
    /\ \A n \in Nodes : n.klass \in ItemKlasses => sched[n].runs <= 1

\* C17, amended: within one scheduler run every item has at most one
\* ProvisionProductTask/TerminateProductTask node, the run body of the node
\* executes at most retry_count times, again only after it failed, and no
\* two mutating run bodies of an item overlap.
C17_RunBodyExecutesAtMostRetryCountTimes ==
    /\ OneNodePerItem
    /\ \A n \in Nodes : n.klass \in ItemKlasses
          => /\ sched[n].runs <= retry_count(manifest, n)
             /\ StateOf(n) = "DONE" => Written(n) /\ outputs[uid(n, invalidator)] = 1

\* the item of L1, required through all four tiers, runs while the pool
\* runs another node
C17_Witness ==
    \E n \in Running :
        /\ n.klass \in ItemKlasses /\ n.name = "L1"
        /\ Cardinality(Running) = MaxWorkers
        /\ \A tier \in Tiers : \E t \in Nodes : t.klass = tier /\ n \in Requires(manifest, t)

---------------------------------------------------------------------------
(* Properties of the fan-out (SpecFanOut) *)

SectionCalled == caller.klass = "LaunchSectionTask"

\* what the section task requires for the launch: the local fan-out tasks
\* and the spoke dispatch
LocalFanOut(name) == {n \in requirements.dependencies : n.name = name /\ n.klass \in Tiers}

SpokeDispatch(name) ==
    {n \in requirements.dependencies :
        n.name = name /\ n.klass = "LaunchForSpokeExecutionTask"}

\* C21: in a hub run the section task requires, for a launch whose execution
\* mode is spoke, its LaunchForSpokeExecutionTask and no local fan-out task,
\* and for every other launch its local fan-out tasks and no spoke dispatch;
\* in a spoke run it requires the local fan-out tasks of the launches whose
\* execution mode is spoke and nothing for the others; no launch gets both,
\* and it requires nothing else.
C21_HubSpokePartition ==
    SectionCalled
        => /\ \A name \in LaunchNames :
                 LET spoke == manifest[name].execution = EXECUTION_MODE_SPOKE
                     fan_out == handle_requirements_for(manifest, name)
                     dispatch == {Node("LaunchForSpokeExecutionTask", name, PyNone, PyNone)}
                 IN /\ self.execution_mode = EXECUTION_MODE_HUB /\ spoke
                          => LocalFanOut(name) = {} /\ SpokeDispatch(name) = dispatch
                    /\ self.execution_mode = EXECUTION_MODE_HUB /\ ~spoke
                          => LocalFanOut(name) = fan_out /\ SpokeDispatch(name) = {}
                    /\ self.execution_mode = EXECUTION_MODE_SPOKE /\ spoke
                          => LocalFanOut(name) = fan_out /\ SpokeDispatch(name) = {}
                    /\ self.execution_mode = EXECUTION_MODE_SPOKE /\ ~spoke
                          => LocalFanOut(name) = {} /\ SpokeDispatch(name) = {}
                    /\ LocalFanOut(name) = {} \/ SpokeDispatch(name) = {}
           /\ requirements.dependencies =
                 UNION {LocalFanOut(name) \cup SpokeDispatch(name) : name \in LaunchNames}
           /\ raised = NoError

\* a hub run over a manifest with a spoke launch and a hub launch: one is
\* dispatched, the other fanned out
C21_Witness ==
    /\ SectionCalled
    /\ self.execution_mode = EXECUTION_MODE_HUB
    /\ manifest["L1"].execution = EXECUTION_MODE_SPOKE
    /\ manifest["L2"].execution = EXECUTION_MODE_HUB
    /\ SpokeDispatch("L1") # {} /\ LocalFanOut("L1") = {}
    /\ LocalFanOut("L2") # {} /\ SpokeDispatch("L2") = {}


----------------------------------------------------------------------------
(* Properties of the parameter resolution and of the provisioning paths *)

\* the keys the target provisioning artifact declares
DeclaredKeys ==
    {input.provisioning_artifact_parameters[i].ParameterKey :
        i \in DOMAIN input.provisioning_artifact_parameters}

\* the DefaultValue the artifact declares for a key
DeclaredDefault(k) ==
    LET i == CHOOSE i \in DOMAIN input.provisioning_artifact_parameters :
                 input.provisioning_artifact_parameters[i].ParameterKey = k
    IN input.provisioning_artifact_parameters[i].DefaultValue

\* a map with exactly the declared keys, the supplied value where one was
\* supplied and the DefaultValue otherwise
ResolvedMap(m) ==
    /\ DOMAIN m = DeclaredKeys
    /\ \A k \in DeclaredKeys :
          m[k] = IF k \in DOMAIN input.all_params THEN input.all_params[k]
                 ELSE DeclaredDefault(k)

\* the run reached the point where it builds params_to_use
BuiltParams ==
    \/ task = "ProvisionProductTask"
    \/ /\ task = "ProvisionProductDryRunTask"
       /\ locals.provisioning_artifact_id # PyNone

\* C22: the parameter map built by ProvisionProductTask.run and by
\* ProvisionProductDryRunTask.run has exactly the keys the artifact declares,
\* each with the supplied value when one is supplied and the DefaultValue
\* otherwise; a supplied key the artifact does not declare is not in the map
\* and is not in the Parameters of any provision or update call.
C22_ParameterResolution ==
    BuiltParams =>
        /\ ResolvedMap(locals.params_to_use)
        /\ \A i \in DOMAIN calls :
              calls[i].api \in ProvisionApis =>
                  /\ ResolvedMap(calls[i].Parameters)
                  /\ DOMAIN calls[i].Parameters \cap
                        (DOMAIN input.all_params \ DeclaredKeys) = {}

\* a run that was supplied the undeclared key Bar and no value for the declared
\* key Foo, and sent a provision or update call
C22_Witness ==
    /\ task = "ProvisionProductTask"
    /\ DeclaredKeys = {"Foo"}
    /\ DOMAIN input.all_params = {"Bar"}
    /\ \E i \in DOMAIN calls :
          /\ calls[i].api \in ProvisionApis
          /\ calls[i].Parameters = [k \in {"Foo"} |-> "old"]


\* C23: when the pre-check reports no existing provisioned resource,
\* ProvisionProductTask.run calls provision_product exactly once and neither
\* the plan-based path nor update_provisioned_product, whether or not
\* should_use_product_plans is set, and it does not read the stack status
\* before that call.
C23_CreatePathIsAlwaysDirect ==
    (ProvisionRan /\ ~Truthy(locals.provisioned_product_id))
        => /\ locals.need_to_provision
           /\ LET sent == CallsTo(calls, ProvisionApis)
              IN /\ Len(sent) = 1
                 /\ sent[1].api = "provision_product"
           /\ "list_launch_paths" \notin ApisOf(calls)
           /\ locals.stack_status = "unread"
           /\ error # StackStatusError
           /\ \A i \in DOMAIN calls :
                 calls[i].api = "provision_product"
                     => \A j \in 1..(i - 1) : calls[j].api # "get_stack_output_for"

\* a run with plan-based execution configured that found no product and
\* created one
C23_Witness ==
    /\ ProvisionRan
    /\ ~Truthy(locals.provisioned_product_id)
    /\ locals.should_use_product_plans
    /\ "provision_product" \in ApisOf(calls)
    /\ before.ProvisionedProducts = {}


TierKinds ==
    {"LaunchTask", "LaunchForRegionTask", "LaunchForAccountTask",
     "LaunchForAccountAndRegionTask"}

\* what the manifest declares as the status of a launch
DeclaredStatus(name) ==
    IF "status" \in DOMAIN manifest[name] THEN manifest[name].status ELSE Undeclared

\* requires() of a tier returned, and every task it instantiated is of the kind
ReturnedOnly(kind) ==
    /\ raised = NoError
    /\ \A n \in requirements.dependencies : n.klass = kind

\* C24: in requires() of a tier the status of the launch selects the kind of
\* the innermost tasks: provisioned, or no declared status, the provision kind
\* and terminated the terminate kind, each in its dry-run variant exactly when
\* is_dry_run is set; with any other status requires() raises, it instantiates
\* no task, and no innermost task of that launch makes a remote call.
C24_StatusSelectsTaskKind ==
    /\ caller.klass \in TierKinds
          => /\ DeclaredStatus(caller.name) \in {PROVISIONED, Undeclared}
                   => ReturnedOnly(IF self.is_dry_run THEN "ProvisionProductDryRunTask"
                                   ELSE "ProvisionProductTask")
             /\ DeclaredStatus(caller.name) = TERMINATED
                   => ReturnedOnly(IF self.is_dry_run THEN "TerminateProductDryRunTask"
                                   ELSE "TerminateProductTask")
             /\ DeclaredStatus(caller.name) \notin {PROVISIONED, Undeclared, TERMINATED}
                   => /\ raised = UnknownStatus
                      /\ requirements = NoRequirements
    /\ \A name \in LaunchNames :
          DeclaredStatus(name) \notin {PROVISIONED, Undeclared, TERMINATED}
              => \A i \in DOMAIN calls : calls[i].launch_name # name

\* requires() of a tier of a launch with status "deleted" raised in a dry run,
\* after an innermost task of the other launch had made its call
C24_Witness ==
    /\ caller.klass = "LaunchForRegionTask"
    /\ caller.name = "L1"
    /\ DeclaredStatus("L1") = "deleted"
    /\ self.is_dry_run
    /\ raised = UnknownStatus
    /\ calls # <<>>


\* the innermost tasks of a launch: one per (account, region) pair the
\* manifest binds to it
InnermostTasks(name, klass) ==
    {Node(klass, name, pair[1], pair[2]) : pair \in manifest[name].deploy_to}

\* C25: for a manifest, requires() of LaunchTask always returns the same set of
\* innermost tasks: one task for each (account, region) pair the manifest
\* binds to the launch and none for another pair; LaunchForRegionTask,
\* LaunchForAccountTask and LaunchForAccountAndRegionTask return the tasks of
\* that set of their region, of their account, and of both.
C25_DeterministicFanOut ==
    (caller.klass \in TierKinds /\ raised = NoError)
        => LET klass == get_klass_for_provisioning(
                            IF DeclaredStatus(caller.name) = Undeclared THEN PROVISIONED
                            ELSE DeclaredStatus(caller.name), self.is_dry_run)
               all == InnermostTasks(caller.name, klass)
           IN /\ caller.klass = "LaunchTask"
                    => requirements.dependencies = all
              /\ caller.klass = "LaunchForRegionTask"
                    => requirements.dependencies =
                          {n \in all : n.region = caller.region}
              /\ caller.klass = "LaunchForAccountTask"
                    => requirements.dependencies =
                          {n \in all : n.account_id = caller.account_id}
              /\ caller.klass = "LaunchForAccountAndRegionTask"
                    => requirements.dependencies =
                          {n \in all : /\ n.account_id = caller.account_id
                                       /\ n.region = caller.region}

\* requires() of LaunchForAccountAndRegionTask for an account the launch is
\* bound to in two regions returned the one task of its region
C25_Witness ==
    /\ caller = Node("LaunchForAccountAndRegionTask", "L1", "111111111111", "us-east-1")
    /\ raised = NoError
    /\ Cardinality(requirements.dependencies) = 1
    /\ Cardinality({pair \in manifest["L1"].deploy_to : pair[1] = "111111111111"}) = 2


\* the launches the launch depends on with region affinity, by edges of type
\* launch
RegionAffineLaunches(name) ==
    {manifest[name].depends_on[i].name :
        i \in {j \in DOMAIN manifest[name].depends_on :
                 /\ manifest[name].depends_on[j].type = LAUNCH
                 /\ manifest[name].depends_on[j].affinity = "region"}}

----------------------------------------------------------------------------
(* Properties of the dry run of a provisioning *)

ProvisionDryRan == task = "ProvisionProductDryRunTask"

\* the products of this launch the dry run finds usable
LiveResources ==
    {r \in Named(before.ProvisionedProducts) : r.Status \in {"AVAILABLE", "TAINTED"}}

\* C26: when no product named after the launch is AVAILABLE or TAINTED,
\* ProvisionProductDryRunTask writes one Diff Result with the effect CHANGE,
\* the desired version as the new version and no current version: the
\* placeholder "-", which names no version.
C26_DryRunNewProvision ==
    (ProvisionDryRan /\ LiveResources = {})
        => /\ locals.provisioning_artifact_id = PyNone
           /\ Len(result) = 1
           /\ result[1].effect = CHANGE
           /\ result[1].new_version = self.version
           /\ result[1].current_version = "-"
           /\ result[1].current_version \notin {VersionName(id) : id \in VersionIds}
           /\ error = NoError

\* a dry run that found the product of the launch in status ERROR
C26_Witness ==
    /\ ProvisionDryRan
    /\ \E r \in Named(before.ProvisionedProducts) : r.Status = "ERROR"
    /\ Len(result) = 1
    /\ result[1].notes = "New provisioning"

\* C27: for a product in status AVAILABLE, ProvisionProductDryRunTask
\* classifies a version other than the desired one as CHANGE and, under equal
\* versions, parameters other than the resolved ones as CHANGE, with a note
\* for each cause that the other does not carry; in both cases the run
\* succeeds and writes exactly one Diff Result.
C27_DryRunChangeClassification ==
    \A r \in Named(before.ProvisionedProducts) :
        (ProvisionDryRan /\ r.Status = "AVAILABLE")
            => LET version_mismatch == r.ProvisioningArtifactId # input.version_id
                   parameter_mismatch == /\ ~version_mismatch
                                         /\ ~ResolvedMap(before.stack_parameters)
               IN /\ Len(result) = 1
                  /\ error = NoError
                  /\ version_mismatch
                        => /\ result[1].effect = CHANGE
                           /\ result[1].notes = "Version change"
                  /\ parameter_mismatch
                        => /\ result[1].effect = CHANGE
                           /\ result[1].notes =
                                 "Versions are the same but the params are different"
                           /\ result[1].notes # "Version change"
                  /\ (~version_mismatch /\ ~parameter_mismatch)
                        => result[1].effect = NO_CHANGE

\* a dry run over an AVAILABLE product of the desired version whose parameters
\* are not the resolved ones
C27_Witness ==
    /\ ProvisionDryRan
    /\ \E r \in Named(before.ProvisionedProducts) :
          /\ r.Status = "AVAILABLE"
          /\ r.ProvisioningArtifactId = input.version_id
    /\ before.stack_parameters = [Foo |-> "old"]
    /\ locals.params_to_use = [Foo |-> "new"]
    /\ Len(result) = 1
    /\ result[1].effect = CHANGE


----------------------------------------------------------------------------
(* The output of a provisioning run *)

\* C29: a ProvisionProductTask run that completes without error, whether it
\* changed nothing, updated or created, in hub or spoke execution, writes
\* exactly one output record, with the launch_name, account_id, region,
\* puppet_account_id and cache_invalidator of the task; an output is there
\* only when the provision or update call the run needed and, in hub
\* execution, a put for every declared binding have been made, the puts after
\* the provision or update call.
C29_TaskOutputOfProvisioningRun ==
    ProvisionRan
        => /\ error = NoError
                 => /\ Len(output) = 1
                    /\ output[1].launch_name = launch_name
                    /\ output[1].account_id = account_id
                    /\ output[1].region = region
                    /\ output[1].puppet_account_id = puppet_account_id
                    /\ output[1].cache_invalidator = cache_invalidator
           /\ output # <<>>
                 => /\ error = NoError
                    /\ locals.need_to_provision
                          => Len(CallsTo(calls, ProvisionApis)) = 1
                    /\ self.execution = EXECUTION_MODE_HUB
                          => \A b \in DOMAIN self.ssm_param_outputs :
                                \E i \in DOMAIN Puts :
                                   Puts[i] = ExpectedPut(self.ssm_param_outputs[b],
                                                         locals.Outputs)
                    /\ \A i, j \in DOMAIN calls :
                          (/\ calls[i].api \in ProvisionApis
                           /\ calls[j].api = "put_parameter_and_wait") => i < j

\* a hub run that updated the product, wrote a parameter for each of its two
\* bindings and then its output
C29_Witness ==
    /\ ProvisionRan
    /\ error = NoError
    /\ self.execution = EXECUTION_MODE_HUB
    /\ Len(self.ssm_param_outputs) = 2
    /\ "update_provisioned_product" \in ApisOf(calls)
    /\ Len(Puts) >= 2
    /\ Len(output) = 1


----------------------------------------------------------------------------
(* GetSSMParamTask, as GetSSMParamTaskTest exercises it *)

ParameterNameChoices == {"parameter_name", "/other/parameter"}

NameChoices == {"name", "other"}

\* the parameters the test leaves out in
\* test_no_exception_when_optional_parameters_are_missing
OptionalParameters ==
    {"depends_on", "manifest_file_path", "puppet_account_id", "spoke_account_id",
     "spoke_region"}

\* the value of an optional string parameter: the one the test supplies, or
\* the default of a parameter that was left out
OptionalValue(supplied, key) == IF key \in supplied THEN key ELSE ""

InitGetSSMParam ==
    /\ self = [klass |-> "none"]
    /\ input = [version_id |-> PyNone, all_params |-> EmptyDict,
                provisioning_artifact_parameters |-> <<>>]
    /\ ProvisionedProducts = {}
    /\ stack_parameters = EmptyDict
    /\ parameter_store = EmptyDict
    /\ task = "none"
    /\ calls = <<>>
    /\ locals = NoLocals
    /\ error = NoError
    /\ output = <<>>
    /\ warnings = <<>>
    /\ result = <<>>
    /\ before = Live
    /\ after_success = FALSE
    /\ prev_result = <<>>
    /\ NoGraph
    /\ NoExt

getSSMParamFrame ==
    <<input, ProvisionedProducts, stack_parameters, parameter_store, calls, locals,
      output, warnings, before, after_success, prev_result, graphVars, extVars>>

\* GetSSMParamTask(parameter_name=..., name=..., region=..., ...): the
\* construction of the task, with any of the optional parameters left out
GetSSMParamTask_init(parameter_name, name, reg, supplied) ==
    /\ self' = [klass |-> "GetSSMParamTask",
                parameter_name |-> parameter_name, name |-> name, region |-> reg,
                depends_on |-> <<>>,
                manifest_file_path |-> OptionalValue(supplied, "manifest_file_path"),
                puppet_account_id |-> OptionalValue(supplied, "puppet_account_id"),
                spoke_account_id |-> OptionalValue(supplied, "spoke_account_id"),
                spoke_region |-> OptionalValue(supplied, "spoke_region"),
                cache_invalidator |-> cache_invalidator]
    /\ task' = "GetSSMParamTask"
    /\ error' = NoError
    /\ result' = <<>>
    /\ UNCHANGED getSSMParamFrame

\* params_for_results_display with the puppet account among the keys
GetSSMParamTask_params_for_results_display_WithAccount(sut) ==
    [parameter_name |-> sut.parameter_name, name |-> sut.name, region |-> sut.region,
     puppet_account_id |-> sut.puppet_account_id,
     cache_invalidator |-> sut.cache_invalidator]

\* GetSSMParamTask.params_for_results_display
GetSSMParamTask_params_for_results_display(sut) ==
    [parameter_name |-> sut.parameter_name, name |-> sut.name, region |-> sut.region,
     cache_invalidator |-> sut.cache_invalidator]

\* GetSSMParamTask.api_calls_used
GetSSMParamTask_api_calls_used(sut) == <<"ssm.get_parameter">>

\* test_params_for_results_display: actual_result
Test_params_for_results_display ==
    /\ self.klass = "GetSSMParamTask"
    /\ task' = "params_for_results_display"
    /\ result' = <<GetSSMParamTask_params_for_results_display(self)>>
    /\ UNCHANGED <<self, error, getSSMParamFrame>>

\* test_api_calls_used: actual_result
Test_api_calls_used ==
    /\ self.klass = "GetSSMParamTask"
    /\ task' = "api_calls_used"
    /\ result' = <<GetSSMParamTask_api_calls_used(self)>>
    /\ UNCHANGED <<self, error, getSSMParamFrame>>

NextGetSSMParam ==
    \/ \E parameter_name \in ParameterNameChoices, name \in NameChoices,
          reg \in Regions, supplied \in SUBSET OptionalParameters :
          GetSSMParamTask_init(parameter_name, name, reg, supplied)
    \/ Test_params_for_results_display
    \/ Test_api_calls_used

SpecGetSSMParam == InitGetSSMParam /\ [][NextGetSSMParam]_vars

----------------------------------------------------------------------------
(* The mutation path, the pre-check and the output bindings of a            *)
(* provisioning run                                                         *)

\* the provision, update and plan calls of the run
Mutations == CallsTo(calls, ProvisionApis)

\* C31: one execution of ProvisionProductTask.run makes at most one of the
\* calls provision_product_with_plan, update_provisioned_product and
\* provision_product; exactly one when a change is needed and the stack-status
\* guard passes; the plan-based call only for a live resource with plan-based
\* execution configured, the direct update only for a live resource without
\* it; none when no change is needed.
C31_OneMutationPathPerRun ==
    ProvisionRan
        => /\ Len(Mutations) <= 1
           /\ (locals.need_to_provision /\ error # StackStatusError)
                 => Len(Mutations) = 1
           /\ "provision_product_with_plan" \in ApisOf(calls)
                 => /\ Truthy(locals.provisioned_product_id)
                    /\ locals.should_use_product_plans
           /\ "update_provisioned_product" \in ApisOf(calls)
                 => /\ Truthy(locals.provisioned_product_id)
                    /\ ~locals.should_use_product_plans
           /\ ~locals.need_to_provision => Len(Mutations) = 0

\* a run over a live product of another version, with plan-based execution
\* configured, that made the plan-based call
C31_Witness ==
    /\ ProvisionRan
    /\ Truthy(locals.provisioned_product_id)
    /\ locals.should_use_product_plans
    /\ locals.need_to_provision
    /\ Len(Mutations) = 1
    /\ Mutations[1].api = "provision_product_with_plan"


----------------------------------------------------------------------------
(* SpecPreCheck: runs of ProvisionProductTask whose pre-check can raise *)

PreCheckError == "terminate_if_status_is_not_available raised"

\* what a run whose pre-check raised has called, had the run gone on to
\* provision after the exception
CallsOfFailedPreCheck_GoesOn(made) ==
    made \o <<[Call("provision_product") EXCEPT
                  !.ProvisioningArtifactId = input.version_id]>>

\* what a run whose pre-check raised has called: the exception leaves run(),
\* nothing after the pre-check is executed
CallsOfFailedPreCheck(made) == made

\* One execution of ProvisionProductTask.run in which a call of the pre-check
\* raises: the scan, or the termination of a product that is not available
ProvisionProductTask_run_PreCheckRaises ==
    \E pre \in {terminate_if_status_is_not_available(ProvisionedProducts)} :
    \E failed_at \in 1..Len(pre.calls) :
    \E products \in (IF failed_at = 2 THEN {ProvisionedProducts, pre.products}
                     ELSE {ProvisionedProducts}) :
        /\ task' = "ProvisionProductTask"
        /\ before' = Live
        /\ after_success' = FALSE
        /\ prev_result' = <<>>
        /\ calls' = CallsOfFailedPreCheck(SubSeq(pre.calls, 1, failed_at))
        /\ locals' = NoLocals
        /\ ProvisionedProducts' = products
        /\ stack_parameters' = IF Named(products) = {} THEN EmptyDict ELSE stack_parameters
        /\ error' = PreCheckError
        /\ output' = <<>>
        /\ warnings' = <<>>
        /\ result' = <<>>
        /\ UNCHANGED <<self, input, parameter_store, graphVars, extVars>>

NextPreCheck ==
    \/ ProvisionProductTask_run
    \/ ProvisionProductTask_run_PreCheckRaises

SpecPreCheck == Init /\ [][NextPreCheck]_vars

PreCheckApis == {"scan_provisioned_products_single_page", "terminate_provisioned_product"}

\* C32: every ProvisionProductTask run starts with the pre-check: its calls
\* come before the read of the stack parameters for the comparison and before
\* any provision, update or plan call; the ids and the status the rest of the
\* run decides with are those of the product the pre-check left (none, when
\* it terminated one that was not available); when the pre-check raises, the
\* run compares nothing, mutates nothing, writes no parameter and no output.
C32_PreCheckOrdering ==
    ProvisionRan
        => /\ calls # <<>>
           /\ calls[1].api = "scan_provisioned_products_single_page"
           /\ \A i, j \in DOMAIN calls :
                 (/\ calls[i].api \in PreCheckApis
                  /\ calls[j].api \in ProvisionApis \cup {"get_parameters_for_stack",
                                                          "get_stack_output_for",
                                                          "put_parameter_and_wait"})
                     => i < j
           /\ error # PreCheckError
                 => LET live == {r \in Named(before.ProvisionedProducts) :
                                    r.Status \in AvailableLike}
                    IN /\ \A r \in live :
                             /\ locals.provisioned_product_id = r.Id
                             /\ locals.provisioning_artifact_id = r.ProvisioningArtifactId
                             /\ locals.provisioned_product_status = r.Status
                       /\ live = {}
                             => /\ ~Truthy(locals.provisioned_product_id)
                                /\ "get_parameters_for_stack" \notin ApisOf(calls)
                                /\ ApisOf(calls) \cap UpdateApis = {}
                       /\ (Named(before.ProvisionedProducts) # {} /\ live = {})
                             => "terminate_provisioned_product" \in ApisOf(calls)
           /\ error = PreCheckError
                 => /\ ApisOf(calls) \subseteq PreCheckApis
                    /\ parameter_store = before.parameter_store
                    /\ output = <<>>

\* a run whose pre-check raised while terminating a product in status ERROR
C32_Witness ==
    /\ ProvisionRan
    /\ error = PreCheckError
    /\ \E r \in Named(before.ProvisionedProducts) : r.Status = "ERROR"
    /\ Len(calls) = 2
    /\ calls[2].api = "terminate_provisioned_product"


StackReads == CallsTo(calls, {"get_stack_output_for"})

\* C33: a ProvisionProductTask run whose execution is not hub issues no put
\* and does not read the stack outputs, whatever bindings are declared (its
\* only read of the stack is the one of the stack status before an update),
\* and writes its output unless the stack-status guard raised; a run whose
\* execution is hub that succeeds has read the stack outputs and issued the
\* put of every declared binding.
C33_SsmOutputsOnlyInHub ==
    ProvisionRan
        => /\ self.execution # EXECUTION_MODE_HUB
                 => /\ Puts = <<>>
                    /\ parameter_store = before.parameter_store
                    /\ locals.Outputs = <<>>
                    /\ Len(StackReads) = IF locals.stack_status = "unread" THEN 0 ELSE 1
                    /\ \A i, j \in DOMAIN calls :
                          (/\ calls[i].api = "get_stack_output_for"
                           /\ calls[j].api \in ProvisionApis) => i < j
                    /\ error # StackStatusError
                          => /\ error = NoError
                             /\ Len(output) = 1
           /\ (self.execution = EXECUTION_MODE_HUB /\ error = NoError)
                 => /\ Len(StackReads) = IF locals.stack_status = "unread" THEN 1 ELSE 2
                    /\ \A b \in DOMAIN self.ssm_param_outputs :
                          \E i \in DOMAIN Puts :
                             Puts[i] = ExpectedPut(self.ssm_param_outputs[b],
                                                   locals.Outputs)

\* a spoke run with two declared bindings that updated the product and wrote
\* its output without a put
C33_Witness ==
    /\ ProvisionRan
    /\ self.execution = EXECUTION_MODE_SPOKE
    /\ Len(self.ssm_param_outputs) = 2
    /\ "update_provisioned_product" \in ApisOf(calls)
    /\ Puts = <<>>
    /\ Len(output) = 1


\* the position of the first declared binding without a matching stack output
FirstMissing ==
    CHOOSE k \in DOMAIN self.ssm_param_outputs :
        /\ self.ssm_param_outputs[k].stack_output \notin OutputKeys(locals.Outputs)
        /\ \A i \in 1..(k - 1) :
              self.ssm_param_outputs[i].stack_output \in OutputKeys(locals.Outputs)

\* C34: when the k-th declared binding has no matching stack output, the puts
\* of the bindings before it have been issued, in the declared order, and
\* what they wrote is in the parameter store; no put is issued for a binding
\* after it; the provision or update made earlier in the run stands.
C34_BindingsInOrderWithoutRollback ==
    (ReachedBindings /\ error = CouldNotFindMatch)
        => LET k == FirstMissing
           IN /\ Len(Puts) = k - 1
              /\ \A i \in 1..(k - 1) :
                    /\ Puts[i] = ExpectedPut(self.ssm_param_outputs[i], locals.Outputs)
                    /\ Puts[i].Name \in DOMAIN parameter_store
                    /\ parameter_store[Puts[i].Name].Value = Puts[i].Value
              /\ output = <<>>
              /\ Mutations # <<>>
                    => /\ \E r \in Named(ProvisionedProducts) :
                             /\ r.Status = "AVAILABLE"
                             /\ r.ProvisioningArtifactId = input.version_id
                       /\ stack_parameters = locals.params_to_use

\* a run that provisioned, wrote the parameter of its first binding and
\* found no output for the second
C34_Witness ==
    /\ ReachedBindings
    /\ error = CouldNotFindMatch
    /\ Len(self.ssm_param_outputs) = 2
    /\ FirstMissing = 2
    /\ Len(Puts) = 1
    /\ Puts[1].Name \in DOMAIN parameter_store
    /\ Mutations # <<>>


----------------------------------------------------------------------------
(* SpecTerminateOrder: terminations whose ensure_is_terminated can raise *)

EnsureError == "ensure_is_terminated raised"

\* DoTerminateProductTask.run after ensure_is_terminated raised, the loop
\* over the bindings executed all the same
DoTerminate_EnsureRaised_DeletesAnyway(made, products, store) ==
    LET deleted == DeleteSsmOutputs(self.ssm_param_outputs, store, 0)
    IN [calls |-> made \o deleted.calls, products |-> products,
        store |-> deleted.store, outcomes |-> deleted.outcomes,
        error |-> EnsureError, log_output |-> <<>>]

\* DoTerminateProductTask.run after ensure_is_terminated raised: the exception
\* leaves run(), the loop over the bindings and the write of the output are
\* not reached
DoTerminate_EnsureRaised(made, products, store) ==
    [calls |-> made, products |-> products, store |-> store, outcomes |-> <<>>,
     error |-> EnsureError, log_output |-> <<>>]

\* one execution of DoTerminateProductTask.run, or of TerminateProductTask.run
\* yielding it, in which a call of ensure_is_terminated raises
Terminate_run_EnsureRaises(klass) ==
    \E ensured \in {ensure_is_terminated(ProvisionedProducts)} :
    \E failed_at \in 1..Len(ensured.calls) :
    \E products \in (IF failed_at = 2 THEN {ProvisionedProducts, ensured.products}
                     ELSE {ProvisionedProducts}) :
       TerminationRan(klass,
                      DoTerminate_EnsureRaised(SubSeq(ensured.calls, 1, failed_at),
                                               products, parameter_store),
                      <<>>)

NextTerminateOrder ==
    \/ ProvisionProductTask_run
    \/ DoTerminateProductTask_run
    \/ TerminateProductTask_run
    \/ \E klass \in {"DoTerminateProductTask", "TerminateProductTask"} :
          Terminate_run_EnsureRaises(klass)

SpecTerminateOrder == InitTerminate /\ [][NextTerminateOrder]_vars

Deletes == CallsTo(calls, {"delete_parameter"})

\* C35: in a termination no parameter is deleted before ensure_is_terminated
\* has returned; when it raises, no parameter is deleted and no output is
\* written; DoTerminateProductTask writes its output only after the delete of
\* every declared binding has been attempted, and TerminateProductTask writes
\* its own only after DoTerminateProductTask has written its.
C35_TerminationOrdering ==
    task \in {"DoTerminateProductTask", "TerminateProductTask"}
        => /\ calls # <<>>
           /\ calls[1].api = "scan_provisioned_products_single_page"
           /\ \A i, j \in DOMAIN calls :
                 (/\ calls[i].api \in PreCheckApis
                  /\ calls[j].api = "delete_parameter") => i < j
           /\ error = EnsureError
                 => /\ Deletes = <<>>
                    /\ parameter_store = before.parameter_store
                    /\ output = <<>>
                    /\ locals.log_output = <<>>
           /\ locals.log_output # <<>>
                 => /\ error = NoError
                    /\ Len(Deletes) = Len(self.ssm_param_outputs)
                    /\ \A i \in DOMAIN Deletes :
                          Deletes[i].Name = self.ssm_param_outputs[i].param_name
           /\ (task = "TerminateProductTask" /\ output # <<>>)
                 => locals.log_output # <<>>
           /\ (task = "DoTerminateProductTask") => output = locals.log_output

\* a termination of a product with two declared bindings whose
\* ensure_is_terminated raised in its terminate call
C35_Witness ==
    /\ task = "TerminateProductTask"
    /\ error = EnsureError
    /\ Len(self.ssm_param_outputs) = 2
    /\ Len(calls) = 2
    /\ before.parameter_store # EmptyDict
    /\ parameter_store = before.parameter_store


----------------------------------------------------------------------------
(* SpecSpokeDeploy: RunDeployInSpokeTask.  Init draws the parameters of the *)
(* task and the environment; the actions are the completion of its two     *)
(* requirements and one execution of its run().                            *)

PuppetAccounts == {"000000000000", "999999999999"}

\* os.getenv('CODEBUILD_BUILD_NUMBER', '0'): the variable set or not
BuildNumbers == {PyNone, "7"}

ManifestBodies == {"manifest-a", "manifest-b"}

PuppetVersions == {"0.90.0", "0.91.0"}

EXECUTION_SPOKE_CODEBUILD_PROJECT_NAME == "servicecatalog-puppet-deploy-in-spoke"

\* ExpiresIn=60 * 60 * 24
ExpiresIn == 86400

SpokeDeployError == "remote call raised"

InitSpokeDeploy ==
    /\ \E puppet \in PuppetAccounts, account \in Accounts, number \in BuildNumbers :
          self = [klass |-> "RunDeployInSpokeTask", puppet_account_id |-> puppet,
                  account_id |-> account, CODEBUILD_BUILD_NUMBER |-> number]
    /\ input = [shares |-> PyNone, new_manifest |-> PyNone]
    /\ ProvisionedProducts = {}
    /\ stack_parameters = EmptyDict
    /\ \E version \in PuppetVersions :
          parameter_store =
              DictSet(EmptyDict, "service-catalog-puppet-version",
                      [Value |-> version, Type |-> "String"])
    /\ task = "none"
    /\ calls = <<>>
    /\ locals = NoLocals
    /\ error = NoError
    /\ output = <<>>
    /\ warnings = <<>>
    /\ result = <<>>
    /\ before = Live
    /\ after_success = FALSE
    /\ prev_result = <<>>
    /\ NoGraph
    /\ NoExt

spokeDeployFrame ==
    <<self, ProvisionedProducts, stack_parameters, parameter_store, warnings,
      result, before, after_success, prev_result, graphVars, extVars>>

\* a requirement of RunDeployInSpokeTask.requires completes: its output exists
Requirement_completes(key, written) ==
    /\ input[key] = PyNone
    /\ input' = [input EXCEPT ![key] = written]
    /\ UNCHANGED <<task, calls, locals, error, output, spokeDeployFrame>>

\* bucket = f"sc-puppet-spoke-deploy-{self.puppet_account_id}"
Bucket(puppet) == <<"sc-puppet-spoke-deploy-", puppet>>

\* key = f"{os.getenv('CODEBUILD_BUILD_NUMBER', '0')}.yaml"
Key(number) == <<IF number = PyNone THEN "0" ELSE number, ".yaml">>

\* what s3.generate_presigned_url("get_object", ...) returns
generate_presigned_url(Params, expires) ==
    [Bucket |-> Params.Bucket, Key |-> Params.Key, ExpiresIn |-> expires]

\* the key the signed url is generated for is the default one
SignedUrlParams_DefaultKey(bucket, key) == [Bucket |-> bucket, Key |-> Key(PyNone)]

\* Params={"Bucket": bucket, "Key": key}
SignedUrlParams(bucket, key) == [Bucket |-> bucket, Key |-> key]

\* the remote calls of a RunDeployInSpokeTask.run in which none raises
RunDeployInSpokeTask_calls(s, body, store) ==
    LET bucket == Bucket(s.puppet_account_id)
        key == Key(s.CODEBUILD_BUILD_NUMBER)
        Params == SignedUrlParams(bucket, key)
        signed_url == generate_presigned_url(Params, ExpiresIn)
        version == store["service-catalog-puppet-version"].Value
    IN << [api |-> "put_object", client |-> "hub", Body |-> body,
           Bucket |-> bucket, Key |-> key],
          [api |-> "generate_presigned_url", client |-> "hub", Params |-> Params,
           ExpiresIn |-> ExpiresIn],
          [api |-> "get_parameter", client |-> "hub",
           Name |-> "service-catalog-puppet-version"],
          [api |-> "start_build", client |-> s.account_id,
           projectName |-> EXECUTION_SPOKE_CODEBUILD_PROJECT_NAME,
           VERSION |-> version, MANIFEST_URL |-> signed_url,
           PUPPET_ACCOUNT_ID |-> s.puppet_account_id] >>

\* one execution of RunDeployInSpokeTask.run: the scheduler starts it once
\* its requirements completed; the call number failed_at raises, or none does
\* and the response of start_build is written
RunDeployInSpokeTask_run(failed_at) ==
    /\ input.shares # PyNone
    /\ input.new_manifest # PyNone
    /\ LET all == RunDeployInSpokeTask_calls(self, input.new_manifest, parameter_store)
       IN /\ failed_at \in 1..(Len(all) + 1)
          /\ task' = "RunDeployInSpokeTask"
          /\ calls' = SubSeq(all, 1, IF failed_at > Len(all) THEN Len(all) ELSE failed_at)
          /\ error' = IF failed_at > Len(all) THEN NoError ELSE SpokeDeployError
          /\ output' = IF failed_at > Len(all)
                       THEN <<[account_id |-> self.account_id,
                               build |-> all[Len(all)].projectName]>>
                       ELSE <<>>
    /\ UNCHANGED <<input, locals, spokeDeployFrame>>

NextSpokeDeploy ==
    \/ Requirement_completes("shares", "shares")
    \/ \E body \in ManifestBodies : Requirement_completes("new_manifest", body)
    \/ \E failed_at \in 1..5 : RunDeployInSpokeTask_run(failed_at)

SpecSpokeDeploy == InitSpokeDeploy /\ [][NextSpokeDeploy]_vars

\* C36: RunDeployInSpokeTask.run executes only once its two requirements
\* completed; it uploads the manifest, then generates the signed url for the
\* bucket and key of the upload, then starts the build in the spoke account
\* with that url as MANIFEST_URL; no build is started when the upload or the
\* url generation raised, and the output is written only after start_build.
C36_SpokeDispatchStepOrder ==
    task = "RunDeployInSpokeTask"
        => /\ input.shares # PyNone
           /\ input.new_manifest # PyNone
           /\ calls # <<>>
           /\ calls[1].api = "put_object"
           /\ calls[1].Body = input.new_manifest
           /\ Len(calls) >= 2
                 => /\ calls[2].api = "generate_presigned_url"
                    /\ calls[2].Params.Bucket = calls[1].Bucket
                    /\ calls[2].Params.Key = calls[1].Key
           /\ \A i \in DOMAIN calls :
                 calls[i].api = "start_build"
                     => /\ i = 4
                        /\ calls[i].client = self.account_id
                        /\ calls[i].MANIFEST_URL =
                               generate_presigned_url(
                                   [Bucket |-> calls[1].Bucket, Key |-> calls[1].Key],
                                   calls[2].ExpiresIn)
           /\ (error # NoError /\ Len(calls) <= 2)
                 => \A i \in DOMAIN calls : calls[i].api # "start_build"
           /\ output # <<>>
                 => /\ error = NoError
                    /\ calls[Len(calls)].api = "start_build"

\* a run with the build number set that started its build and wrote its output
C36_Witness ==
    /\ task = "RunDeployInSpokeTask"
    /\ self.CODEBUILD_BUILD_NUMBER = "7"
    /\ Len(calls) = 4
    /\ calls[4].api = "start_build"
    /\ output # <<>>

\* a run whose url generation raised
C36_WitnessUrlFailed ==
    /\ task = "RunDeployInSpokeTask"
    /\ Len(calls) = 2
    /\ error = SpokeDeployError
    /\ output = <<>>


----------------------------------------------------------------------------
(* SpecSpokeSched: scheduler runs over manifests whose launch L1 is executed *)
(* in the spokes, with the actions of SpecSched.                            *)

\* the accounts and regions a launch of these manifests is deployed to
SpokeDeployChoices ==
    { {<<"111111111111", "us-east-1">>},
      {<<"222222222222", "us-east-1">>},
      {<<"111111111111", "us-east-1">>, <<"222222222222", "us-east-1">>} }

SpokeSchedManifests ==
    { [name \in LaunchNames \cup CodeBuildRunNames |->
          IF name = "L1"
          THEN [execution |-> EXECUTION_MODE_SPOKE, status |-> PROVISIONED,
                depends_on |-> depends_on, retry_count |-> 1,
                deploy_to |-> deploy_to1, tiers |-> {"LaunchTask"}]
          ELSE IF name = "L2"
          THEN [execution |-> execution2, status |-> PROVISIONED,
                depends_on |-> <<>>, retry_count |-> 1,
                deploy_to |-> deploy_to2, tiers |-> {"LaunchTask"}]
          ELSE [execution |-> EXECUTION_MODE_HUB, status |-> PROVISIONED,
                depends_on |-> <<>>, retry_count |-> 1,
                deploy_to |-> {<<"111111111111", "us-east-1">>},
                tiers |-> {}]] :
        execution2 \in {EXECUTION_MODE_HUB, EXECUTION_MODE_SPOKE},
        depends_on \in SchedEdgeChoices,
        deploy_to1 \in SpokeDeployChoices,
        deploy_to2 \in {d \in SpokeDeployChoices : Cardinality(d) = 1} }

InitSpokeSched ==
    /\ manifest \in SpokeSchedManifests
    /\ requirements = NoRequirements
    /\ raised = NoError
    /\ caller = Node("none", PyNone, PyNone, PyNone)
    /\ NoRun
    /\ NoDescribe
    /\ prev_run = NoPrevRun
    /\ sched = Scheduled(manifest)
    /\ outputs = <<>>
    /\ builds = NoBuilds
    /\ invalidator = "c1"
    /\ run_no = 1

SpecSpokeSched == InitSpokeSched /\ [][NextSched]_vars

SpokeDispatchers == {n \in Nodes : n.klass = "LaunchForSpokeExecutionTask"}

RunDeploys == {n \in Nodes : n.klass = "RunDeployInSpokeTask"}

\* the accounts the spoke launches the scheduler knows are deployed to
DispatchedAccounts ==
    UNION {get_account_ids_used_for_section_item(manifest, n.name) : n \in SpokeDispatchers}

\* C37: within one scheduler run there is at most one RunDeployInSpokeTask
\* node per account, whatever the number of spoke launches deployed to the
\* account, and its run, which starts the build, executes at most once; a
\* LaunchForSpokeExecutionTask yields the node of each of its accounts and
\* writes its output only once they are done; nodes of distinct accounts are
\* distinct.
C37_OneBuildPerSpokeAccount ==
    /\ \A n1 \in RunDeploys, n2 \in RunDeploys :
          (n1.account_id = n2.account_id) <=> (n1 = n2)
    /\ \A n \in RunDeploys :
          /\ sched[n].runs <= 1
          /\ n.account_id \in DispatchedAccounts
          /\ builds[n.account_id] # "NONE" => sched[n].runs = 1
    /\ \A a \in Accounts :
          builds[a] # "NONE" => \E n \in RunDeploys : n.account_id = a
    /\ \A l \in SpokeDispatchers :
          LET accounts == get_account_ids_used_for_section_item(manifest, l.name)
              waited == {n \in RunDeploys : n.account_id \in accounts}
          IN /\ Yields(manifest, l) =
                   {Node("RunDeployInSpokeTask", PyNone, a, PyNone) : a \in accounts}
             /\ StateOf(l) \in {"SUSPENDED", "DONE"}
                   => waited = Yields(manifest, l)
             /\ (Written(l) \/ StateOf(l) = "DONE")
                   => \A n \in waited : StateOf(n) = "DONE" /\ Written(n)

\* two spoke launches deployed to the same account have both completed, L1
\* over two accounts: one node per account, each executed once
C37_Witness ==
    /\ manifest["L2"].execution = EXECUTION_MODE_SPOKE
    /\ manifest["L2"].deploy_to = {<<"111111111111", "us-east-1">>}
    /\ Cardinality(manifest["L1"].deploy_to) = 2
    /\ Cardinality(SpokeDispatchers) = 2
    /\ \A l \in SpokeDispatchers : Written(l)
    /\ Cardinality(RunDeploys) = 2
    /\ \A n \in RunDeploys : sched[n].runs = 1


\* the node the claim expects for an edge whose affinity equals its type
ExpectedNode(e) ==
    IF e.type = LAUNCH
    THEN Node(IF manifest[e.name].execution = EXECUTION_MODE_SPOKE
              THEN "LaunchForSpokeExecutionTask" ELSE "LaunchTask",
              e.name, PyNone, PyNone)
    ELSE IF e.type = SPOKE_LOCAL_PORTFOLIO
    THEN Node("SpokeLocalPortfolioTask", e.name, PyNone, PyNone)
    ELSE IF e.type = ASSERTION THEN Node("AssertionTask", e.name, PyNone, PyNone)
    ELSE IF e.type = CODE_BUILD_RUN THEN Node("CodeBuildRunTask", e.name, PyNone, PyNone)
    ELSE Node("LambdaInvocationTask", e.name, PyNone, PyNone)

\* C38: LaunchForSpokeExecutionTask.requires returns, for each depends_on
\* edge whose affinity equals its type, the one node of the kind of the type,
\* for a launch a LaunchForSpokeExecutionTask when the launch depended upon is
\* executed in the spokes and a LaunchTask otherwise; and the run of a
\* RunDeployInSpokeTask the launch dispatches starts only after all those
\* nodes have completed.
C38_DispatchAfterDependencies ==
    \A l \in SpokeDispatchers :
        LET required == {ExpectedNode(e) :
                            e \in {d \in EdgesOf(l) : d.type \in SupportedTypes
                                                      /\ d.affinity = d.type}}
        IN /\ Requires(manifest, l) = required
           /\ \A n \in Yields(manifest, l) \cap Nodes :
                 sched[n].runs > 0 => \A d \in required : StateOf(d) = "DONE"


----------------------------------------------------------------------------
(* Properties of the dry run of a termination (Spec) *)

\* C39: TerminateProductDryRunTask writes exactly one result; its effect is
\* CHANGE exactly when a termination over the same live state would issue a
\* terminate call (a product of the launch exists and is not TERMINATED),
\* and NO_CHANGE otherwise.
C39_DryRunTerminateAgreesWithTermination ==
    task = "TerminateProductDryRunTask"
        => LET real == TerminateCalls(ensure_is_terminated(before.ProvisionedProducts))
               would_terminate == TerminateCallsIn(real) > 0
           IN /\ Len(result) = 1
              /\ would_terminate
                    <=> (\E r \in Named(before.ProvisionedProducts) : r.Status # "TERMINATED")
              /\ would_terminate => result[1].effect = CHANGE
              /\ ~would_terminate => result[1].effect = NO_CHANGE


----------------------------------------------------------------------------
(* SpecLaunchPaths: ListLaunchPathsTask.  Init draws the portfolio of the   *)
(* task and the answer of list_launch_paths; the action is one execution of *)
(* run().                                                                   *)

\* number of launch paths list_launch_paths answers with, at most
MaxPaths == 3

Portfolios == {"portfolio-a", "portfolio-b"}

LaunchPathSummaryChoices == [Id : {"lp-1", "lp-2"}, Name : Portfolios]

CouldNotFindLaunchPath == "Could not find a launch path"

InitLaunchPaths ==
    /\ \E portfolio \in Portfolios :
          self = [klass |-> "ListLaunchPathsTask", portfolio |-> portfolio,
                  product_id |-> product_id]
    /\ \E LaunchPathSummaries \in SeqsUpTo(LaunchPathSummaryChoices, MaxPaths) :
          responses = <<[LaunchPathSummaries |-> LaunchPathSummaries]>>
    /\ input = [version_id |-> PyNone, all_params |-> EmptyDict,
                provisioning_artifact_parameters |-> <<>>]
    /\ ProvisionedProducts = {}
    /\ stack_parameters = EmptyDict
    /\ parameter_store = EmptyDict
    /\ task = "none"
    /\ calls = <<>>
    /\ locals = NoLocals
    /\ error = NoError
    /\ output = <<>>
    /\ warnings = <<>>
    /\ result = <<>>
    /\ before = Live
    /\ after_success = FALSE
    /\ prev_result = <<>>
    /\ NoGraph
    /\ pc = "none"
    /\ sleeps = 0
    /\ prev_run = NoPrevRun
    /\ NoSched

\* the loop of the else branch: every summary named like the portfolio is
\* passed to write_output
RECURSIVE WriteNamedLike(_, _)
WriteNamedLike(summaries, portfolio) ==
    IF summaries = <<>> THEN <<>>
    ELSE (IF Head(summaries).Name = portfolio THEN <<Head(summaries)>> ELSE <<>>)
         \o WriteNamedLike(Tail(summaries), portfolio)

\* what ListLaunchPathsTask.run passes to write_output, call by call
ListLaunchPathsTask_written(response, portfolio) ==
    IF Len(response.LaunchPathSummaries) = 1
    THEN <<response.LaunchPathSummaries[1]>>
    ELSE WriteNamedLike(response.LaunchPathSummaries, portfolio)

\* the exception that ends ListLaunchPathsTask.run: the raise that follows
\* the with block, which every run reaches
ListLaunchPathsTask_raised(response, portfolio) == CouldNotFindLaunchPath

\* one execution of ListLaunchPathsTask.run
ListLaunchPathsTask_run ==
    /\ task' = "ListLaunchPathsTask"
    /\ calls' = <<Call("list_launch_paths")>>
    /\ output' = ListLaunchPathsTask_written(responses[1], self.portfolio)
    /\ error' = ListLaunchPathsTask_raised(responses[1], self.portfolio)
    /\ UNCHANGED <<self, input, ProvisionedProducts, stack_parameters, parameter_store,
                   locals, warnings, result, before, after_success, prev_result,
                   graphVars, extVars>>

NextLaunchPaths == ListLaunchPathsTask_run

SpecLaunchPaths == InitLaunchPaths /\ [][NextLaunchPaths]_vars

\* the launch paths the run selects: the only one, or those named like the
\* portfolio
SelectedPaths ==
    LET summaries == responses[1].LaunchPathSummaries
    IN IF Len(summaries) = 1 THEN {summaries[1]}
       ELSE {summaries[i] : i \in {j \in DOMAIN summaries :
                                      summaries[j].Name = self.portfolio}}

\* C40: ListLaunchPathsTask.run ends with 'Could not find a launch path'
\* only when it selected no launch path; when it selected one it has written
\* that path, once, and ended without an exception.
C40_LaunchPathLookupOutcome ==
    task = "ListLaunchPathsTask"
        => /\ error = CouldNotFindLaunchPath => SelectedPaths = {}
           /\ SelectedPaths # {}
                 => /\ Len(output) = 1
                    /\ output[1] \in SelectedPaths
                    /\ error = NoError

=============================================================================
